---------------------------- MODULE Spec2Model ----------------------------
(***************************************************************************)
(* debrepbuild: the verified download (repo/download/request.rs), the      *)
(* content index build (repo/generate.rs: contents, ContentIterator,       *)
(* ContentReader) and the configuration lookup (config/mod.rs).            *)
(*                                                                         *)
(* Byte strings (paths, package names, serialized lines, file bodies) are  *)
(* sequences of byte values.  One specification per component:             *)
(*   SpecReader      ContentReader::read over any iterator of lines        *)
(*   Spec            contents() for one architecture                       *)
(*   SpecIntrospect  the closure of contents() that reads one archive      *)
(*   SpecSuites      contents() over all architectures                     *)
(*   SpecFile        request::file                                         *)
(*   SpecFileFaults  request::file with failing filesystem operations      *)
(*   SpecConfig      Config's update and fetch                             *)
(***************************************************************************)
EXTENDS Integers, Sequences, FiniteSets, TLC

VARIABLES
    \* ContentReader { buffer, data } and what its caller has seen
    buffer,      \* ContentReader.buffer: Vec<u8>
    data,        \* ContentReader.data: the items the iterator has yet to yield
    src,         \* the items the iterator held when the reader was built
    out,         \* every byte the read calls have handed out so far, in order
    lastRead,    \* the last read call: [req, got], req = -1 before the first
    pulls,       \* the pulls of the last read call: <<buffer length before the pull, ...>>
    rstate,      \* "open", "eof" (a read of a non-empty buf returned 0), "panic"
    partial,     \* some read call so far left bytes behind in the buffer
    \* contents(), one architecture
    pool,        \* the archives under the pool path, in the order walk_debs yields them
    entries,     \* entries[i]: Pending, or the io::Result of archive i's introspection
    pc,          \* where the architecture's closure stands
    file_map,    \* the merged (path, package) records
    err,         \* the io::Error the closure returned, or NoError
    compressing, \* compress() has been called with the reader
    \* request::file, one call
    compare,     \* the RequestCompare argument
    file,        \* the destination path on disk: [exists, content, mtime, atime]
    parent,      \* the destination's parent directory exists
    now,         \* the clock: what a write or a create stamps on the file
    tries,       \* the local of line 17
    fpc,         \* where the call stands: "start" (top of the loop), "opened",
                 \* "written", "done"
    result,      \* what the call returned
    downloaded,  \* the local of line 61: the bytes copy_to wrote
    transfers,   \* GET requests sent so far in this call
    removes,     \* remove_file calls so far in this call
    total,       \* bytes written by all transfers of this call
    pre,         \* the destination as it was when the call began
    copyAtime,   \* the destination's access time right after the last transfer
    \* the closure of one archive (generate.rs 282-380)
    deb,            \* the archive on disk: [members, control, data]
    entry_id,       \* the local of line 289
    control_member, \* the local control of line 287: None or Some([id, codec])
    data_member,    \* the local data of line 288
    nread,          \* the members next_entry() has yielded so far
    ipc,            \* "scan", "scanned", "parsed", "done"
    package,        \* the local of line 314
    section,        \* the local of line 315
    files,          \* the local of line 283
    iresult,        \* the io::Result<ContentsEntry> the closure returned
    \* Config and its ConfigFetch calls (config/mod.rs)
    config,         \* the Config: [archive, version, origin, label, email, direct, source]
    lastKey,        \* the key of the last update call
    lastValue,      \* the value of the last update call
    updated,        \* what the last update call returned: "none", "ok", "err"
    fetched,        \* the last fetch call: [key, value, after]
    nupdates,       \* update calls so far
    \* contents() over all of suites (generate.rs 271-424)
    suites,         \* the argument: <<[arch, path], ...>>
    tree,           \* the debs on disk, in walk order: <<[dir, archive], ...>>
    task,           \* task[i]: "waiting", "running", "ok", "err", "skipped"
    merged,         \* merged[i]: the file_map of suite i's closure
    dist,           \* dist[i]: the index suite i's closure gave to compress(), or None
    saved,          \* the error collect() has stored, or None
    cresult,        \* what contents() returned: "none", "ok", "err"
    \* request::file called again for the same target (request.rs 16-94)
    calls,          \* 1 during the first call for the target, 2 during the repeated one
    \* metapackages::generate and directory_scope (metapackages.rs 8-62)
    cwd,            \* the working directory of the process
    before,         \* the working directory when directory_scope was last called
    previous,       \* the local of line 57, or None
    walk,           \* the directories of the cfg files WalkDir has yet to yield
    dpc,            \* "idle", "walk", "scope", "restore", "done"
    scoped,         \* how the last directory_scope call returned: "none", "ok", "err"
    dresult         \* what generate returned

readerVars == <<buffer, data, src, out, lastRead, pulls, rstate, partial>>

contentsVars == <<pool, entries, pc, file_map, err, compressing>>

fileVars == <<compare, file, parent, now, tries, fpc, result, downloaded,
              transfers, removes, total, pre, copyAtime>>

introspectVars == <<deb, entry_id, control_member, data_member, nread, ipc,
                    package, section, files, iresult>>

configVars == <<config, lastKey, lastValue, updated, fetched, nupdates>>

suiteVars == <<suites, tree, task, merged, dist, saved, cresult>>

callVars == <<calls>>

scopeVars == <<cwd, before, previous, walk, dpc, scoped, dresult>>

\* The components added to the three above.
moreVars == <<introspectVars, configVars, suiteVars, callVars, scopeVars>>

vars == <<buffer, data, src, out, lastRead, pulls, rstate, partial,
          pool, entries, pc, file_map, err, compressing,
          compare, file, parent, now, tries, fpc, result, downloaded,
          transfers, removes, total, pre, copyAtime,
          deb, entry_id, control_member, data_member, nread, ipc,
          package, section, files, iresult,
          config, lastKey, lastValue, updated, fetched, nupdates,
          suites, tree, task, merged, dist, saved, cresult,
          calls, cwd, before, previous, walk, dpc, scoped, dresult>>

---------------------------------------------------------------------------
(* Bounds *)

MaxLines == 3      \* SpecReader: items the iterator holds
MaxRead == 4       \* SpecReader: largest buf.len() a caller asks for
MaxArchives == 2   \* Spec: archives in the pool
MaxFiles == 2      \* Spec: file paths in one archive's data member
ChunkSize == 8     \* Spec: the buf.len() compress() reads with
MaxBody == 2       \* SpecFile: bytes in a file body
HashMod == 5       \* SpecFile: the digests are 0..HashMod-1
WordBits == 6      \* SpecFile: the width that stands for the 64 bits of u64, i64, time_t
MaxDirect == 2     \* SpecConfig: entries of Config.direct
MaxUpdates == 1    \* SpecConfig: update calls in one run
MaxTree == 3       \* SpecSuites: debs in the pool tree
MaxMembers == 3    \* SpecIntrospect: members in a deb's outer container
MaxControlLines == 2   \* SpecIntrospect: lines in a control file
MaxEntries == 2    \* SpecScope: cfg files under metapackages/

---------------------------------------------------------------------------
(* Byte strings *)

Min(a, b) == IF a < b THEN a ELSE b

RECURSIVE Flat(_)
Flat(ss) == IF ss = <<>> THEN <<>> ELSE Head(ss) \o Flat(Tail(ss))

\* Every sequence over S of length at most n.
RECURSIVE SeqsUpTo(_, _)
SeqsUpTo(S, n) ==
    IF n = 0 THEN { <<>> }
    ELSE LET shorter == SeqsUpTo(S, n - 1)
         IN  shorter \cup { Append(s, x) : s \in { t \in shorter : Len(t) = n - 1 }, x \in S }

Range(seq) == { seq[i] : i \in 1..Len(seq) }

\* The item a ContentIterator "yields" when next() panics instead.
PanicItem == <<-1>>

---------------------------------------------------------------------------
(* ContentReader::read, generate.rs 224-259 *)

\* The mutant of Refill: every item the iterator holds is pulled.
RECURSIVE RefillAll(_, _, _, _)
RefillAll(buf, items, n, seen) ==
    IF items # <<>>
    THEN RefillAll(buf \o Head(items), Tail(items), n, Append(seen, Len(buf)))
    ELSE [buffer |-> buf, data |-> items, panicked |-> FALSE, pulls |-> seen]

\* 227-232: while self.buffer.len() < buf.len() { match self.data.next() ... }
RECURSIVE Refill(_, _, _, _)
Refill(buf, items, n, seen) ==
    IF Len(buf) < n /\ items # <<>>
    THEN IF Head(items) = PanicItem
         THEN [buffer |-> buf, data |-> Tail(items), panicked |-> TRUE,
               pulls |-> Append(seen, Len(buf))]
         ELSE Refill(buf \o Head(items), Tail(items), n, Append(seen, Len(buf)))
    ELSE [buffer |-> buf, data |-> items, panicked |-> FALSE, pulls |-> seen]

\* 248-250: for (new, old) in (to_write..len).enumerate() { buffer[new] = buffer[old] }
\* (indices here are 1-based: new = k + 1, old = to_write + k + 1)
RECURSIVE ShiftLoop(_, _, _)
ShiftLoop(buf, to_write, k) ==
    IF to_write + k + 1 > Len(buf) THEN buf
    ELSE ShiftLoop([buf EXCEPT ![k + 1] = buf[to_write + k + 1]], to_write, k + 1)

\* The mutant of Drain: the copy starts one element late.
DrainLate(buf, to_write) ==
    IF to_write # Len(buf)
    THEN SubSeq(ShiftLoop(buf, Min(to_write + 1, Len(buf)), 0), 1, Len(buf) - to_write)
    ELSE <<>>

\* 241-255: the leftovers move to the front and the buffer is truncated to
\* them, or the buffer is cleared.  The reserve_exact branch (243-246) needs
\* capacity < leftovers, and capacity >= len > leftovers: it never runs.
Drain(buf, to_write) ==
    IF to_write # Len(buf)
    THEN SubSeq(ShiftLoop(buf, to_write, 0), 1, Len(buf) - to_write)
    ELSE <<>>

\* One call read(&mut self, buf) with buf.len() = n.  ret = -1: the iterator
\* panicked during the refill.
ReadCall(buf, items, n) ==
    LET r == IF buf = <<>> THEN Refill(buf, items, n, <<>>)
             ELSE [buffer |-> buf, data |-> items, panicked |-> FALSE, pulls |-> <<>>]
    IN  IF r.panicked
        THEN [buffer |-> r.buffer, data |-> r.data, bytes |-> <<>>, ret |-> -1, pulls |-> r.pulls]
        ELSE IF r.buffer = <<>>
        THEN [buffer |-> <<>>, data |-> r.data, bytes |-> <<>>, ret |-> 0, pulls |-> r.pulls]
        ELSE LET to_write == Min(Len(r.buffer), n)
             IN  [buffer |-> Drain(r.buffer, to_write), data |-> r.data,
                  bytes |-> SubSeq(r.buffer, 1, to_write), ret |-> to_write,
                  pulls |-> r.pulls]

\* The mutant of Read: a call that finds nothing left rewinds the iterator.
ReadRewind(n) ==
    /\ rstate # "panic"
    /\ LET r == ReadCall(buffer, data, n)
       IN  /\ buffer' = r.buffer
           /\ data' = IF r.ret = 0 THEN src ELSE r.data
           /\ out' = out \o r.bytes
           /\ lastRead' = [req |-> n, got |-> r.ret]
           /\ pulls' = r.pulls
           /\ rstate' = IF r.ret = -1 THEN "panic"
                        ELSE IF r.ret = 0 /\ n > 0 THEN "eof"
                        ELSE rstate
           /\ partial' = (partial \/ (r.ret > 0 /\ r.buffer # <<>>))
    /\ UNCHANGED src

\* The reader's step: a caller reads into a buf of n bytes.
Read(n) ==
    /\ rstate # "panic"
    /\ LET r == ReadCall(buffer, data, n)
       IN  /\ buffer' = r.buffer
           /\ data' = r.data
           /\ out' = out \o r.bytes
           /\ lastRead' = [req |-> n, got |-> r.ret]
           /\ pulls' = r.pulls
           /\ rstate' = IF r.ret = -1 THEN "panic"
                        ELSE IF r.ret = 0 /\ n > 0 THEN "eof"
                        ELSE rstate
           /\ partial' = (partial \/ (r.ret > 0 /\ r.buffer # <<>>))
    /\ UNCHANGED src

---------------------------------------------------------------------------
(* Values of request::file *)

None == [some |-> FALSE]
Some(x) == [some |-> TRUE, v |-> x]

NoFile == [exists |-> FALSE, content |-> <<>>, mtime |-> 0, atime |-> 0]

NoResult == [kind |-> "none", n |-> 0, what |-> ""]
Ok(n) == [kind |-> "ok", n |-> n, what |-> ""]
Err(what) == [kind |-> "err", n |-> 0, what |-> what]

\* The state of the variables of the archive closure while none runs.
IntrospectIdle ==
    /\ deb = [members |-> <<>>, control |-> <<>>, data |-> <<>>]
    /\ entry_id = 0
    /\ control_member = None
    /\ data_member = None
    /\ nread = 0
    /\ ipc = "idle"
    /\ package = None
    /\ section = None
    /\ files = <<>>
    /\ iresult = [state |-> "pending"]

\* The state of the variables of the configuration while it is not in use.
ConfigIdle ==
    /\ config = [direct |-> None]
    /\ lastKey = <<>>
    /\ lastValue = <<>>
    /\ updated = "none"
    /\ fetched = [key |-> <<>>, value |-> None, after |-> 0]
    /\ nupdates = 0

\* The state of the variables of contents() over suites while no call runs.
SuitesIdle ==
    /\ suites = <<>>
    /\ tree = <<>>
    /\ task = <<>>
    /\ merged = <<>>
    /\ dist = <<>>
    /\ saved = None
    /\ cresult = "none"

\* The state of the added components while none of them runs.
\* The first call of request::file for a target.
CallsIdle == calls = 1

\* The state of the variables of metapackages::generate while no call runs.
ScopeIdle ==
    /\ cwd = <<>>
    /\ before = <<>>
    /\ previous = None
    /\ walk = <<>>
    /\ dpc = "idle"
    /\ scoped = "none"
    /\ dresult = NoResult

MoreIdle == IntrospectIdle /\ ConfigIdle /\ SuitesIdle /\ CallsIdle /\ ScopeIdle

\* The state of the variables of request::file while no call runs.
FileIdle ==
    /\ compare = [kind |-> "none"]
    /\ file = NoFile
    /\ parent = FALSE
    /\ now = 0
    /\ tries = 0
    /\ fpc = "idle"
    /\ result = NoResult
    /\ downloaded = 0
    /\ transfers = 0
    /\ removes = 0
    /\ total = 0
    /\ pre = NoFile
    /\ copyAtime = 0

---------------------------------------------------------------------------
(* Paths: PathBuf's Ord and Eq go by components, std::path *)

Slash == 47
Dot == 46
Space == 32
Newline == 10

\* -1, 0, 1: a before b, equal, a after b; byte-wise lexicographic.
RECURSIVE BytesCmp(_, _)
BytesCmp(a, b) ==
    IF a = <<>> /\ b = <<>> THEN 0
    ELSE IF a = <<>> THEN -1
    ELSE IF b = <<>> THEN 1
    ELSE IF Head(a) < Head(b) THEN -1
    ELSE IF Head(a) > Head(b) THEN 1
    ELSE BytesCmp(Tail(a), Tail(b))

\* The pieces of a path between its '/' bytes (empty pieces included).
RECURSIVE SplitSlash(_, _)
SplitSlash(path, piece) ==
    IF path = <<>> THEN <<piece>>
    ELSE IF Head(path) = Slash THEN <<piece>> \o SplitSlash(Tail(path), <<>>)
    ELSE SplitSlash(Tail(path), Append(piece, Head(path)))

\* A component is <<tag>> \o bytes; the tags follow the order of the variants
\* of std::path::Component: RootDir 1, CurDir 2, ParentDir 3, Normal 4.
RECURSIVE PiecesToComponents(_, _)
PiecesToComponents(pieces, first) ==
    IF pieces = <<>> THEN <<>>
    ELSE LET p == Head(pieces)
             rest == Tail(pieces)
         IN  IF p = <<>> THEN PiecesToComponents(rest, first)
             ELSE IF p = <<Dot>>
             THEN IF first THEN <<(<<2>>)>> \o PiecesToComponents(rest, FALSE)
                  ELSE PiecesToComponents(rest, FALSE)
             ELSE IF p = <<Dot, Dot>> THEN <<(<<3>>)>> \o PiecesToComponents(rest, FALSE)
             ELSE <<(<<4>> \o p)>> \o PiecesToComponents(rest, FALSE)

Components(path) ==
    IF path # <<>> /\ Head(path) = Slash
    THEN <<(<<1>>)>> \o PiecesToComponents(SplitSlash(path, <<>>), FALSE)
    ELSE PiecesToComponents(SplitSlash(path, <<>>), TRUE)

RECURSIVE ComponentsCmp(_, _)
ComponentsCmp(a, b) ==
    IF a = <<>> /\ b = <<>> THEN 0
    ELSE IF a = <<>> THEN -1
    ELSE IF b = <<>> THEN 1
    ELSE LET c == BytesCmp(Head(a), Head(b))
         IN  IF c # 0 THEN c ELSE ComponentsCmp(Tail(a), Tail(b))

\* The mutant of PathCmp: the raw bytes are compared.
PathCmpBytes(a, b) == BytesCmp(a, b)

\* 400: a.0.cmp(&b.0) on PathBuf
PathCmp(a, b) == ComponentsCmp(Components(a), Components(b))

\* PathBuf's ==
PathEq(a, b) == Components(a) = Components(b)

---------------------------------------------------------------------------
(* ContentIterator::next, generate.rs 203-216 *)

\* 204-215: one record's line; &path[..2] panics on a path shorter than 2.
ContentIteratorNext(rec) ==
    IF Len(rec.path) < 2 THEN PanicItem
    ELSE (IF SubSeq(rec.path, 1, 2) = <<Dot, Slash>>
          THEN SubSeq(rec.path, 3, Len(rec.path))
          ELSE rec.path)
         \o <<Space, Space>> \o rec.package \o <<Newline>>

---------------------------------------------------------------------------
(* contents(), generate.rs 271-424, for one (arch, path) of suites *)

NoError == [kind |-> "none"]

\* An archive's place in entries while its task runs.
Pending == [state |-> "pending"]

\* The state of the variables of contents() while no build runs.
ContentsIdle ==
    /\ pool = <<>>
    /\ entries = <<>>
    /\ pc = "idle"
    /\ file_map = <<>>
    /\ err = NoError
    /\ compressing = FALSE

SamplePaths ==
    << <<Dot, Slash, 97>>,      \* ./a
       <<97, Slash, 98>>,       \* a/b
       <<97, 45, 98>>,          \* a-b
       <<98>> >>                \* b

SamplePackages == { <<115, Slash, 112>>, <<115, Slash, 113>> }   \* s/p, s/q

RECURSIVE Pick(_, _, _)
\* The elements of seq whose index is in S, in seq's order.
Pick(seq, S, i) ==
    IF i > Len(seq) THEN <<>>
    ELSE (IF i \in S THEN <<seq[i]>> ELSE <<>>) \o Pick(seq, S, i + 1)

\* 376: the deb has no recognised control member or no recognised data member
NoMembers == "could not find data + control entries in deb archive"

\* 352: the control file lacks its Package: or its Section: line
NoFields == "did not find package + section from control archive"

\* An archive as the introspection sees it.  broken: the deb does not
\* introspect (282-379 return an Err, whose message is cause).
SampleArchives ==
    { [package |-> p, files |-> Pick(SamplePaths, S, 1), broken |-> FALSE, cause |-> ""] :
        p \in SamplePackages,
        S \in { T \in SUBSET (1..Len(SamplePaths)) : Cardinality(T) <= MaxFiles } }
    \cup { [package |-> <<>>, files |-> <<>>, broken |-> TRUE, cause |-> c] :
             c \in {NoMembers, NoFields} }

\* 282-380: the closure of one archive, to its io::Result<ContentsEntry>.
IntrospectResult(archive) ==
    IF archive.broken
    THEN [state |-> "err", error |-> [kind |-> "introspect", cause |-> archive.cause]]
    ELSE [state |-> "ok", package |-> archive.package, files |-> archive.files]

\* 392-398: every path of every entry with the entry's package, in order.
RECURSIVE Flatten(_)
Flatten(packages) ==
    IF packages = <<>> THEN <<>>
    ELSE [i \in 1..Len(Head(packages).files) |->
            [path |-> Head(packages).files[i], package |-> Head(packages).package]]
         \o Flatten(Tail(packages))

\* The place of rec in an already sorted seq: after every record that is not
\* greater (slices of fewer than 20 elements are insertion sorted).
RECURSIVE Insert(_, _)
Insert(sorted, rec) ==
    IF sorted = <<>> THEN <<rec>>
    ELSE IF PathCmp(sorted[Len(sorted)].path, rec.path) <= 0 THEN Append(sorted, rec)
    ELSE Append(Insert(SubSeq(sorted, 1, Len(sorted) - 1), rec), sorted[Len(sorted)])

\* The mutant of SortByPath: the records stay in the order of the flattening.
Unsorted(seq) == seq

\* 400: file_map.sort_unstable_by(|a, b| a.0.cmp(&b.0))
RECURSIVE SortByPath(_)
SortByPath(seq) ==
    IF seq = <<>> THEN <<>>
    ELSE Insert(SortByPath(SubSeq(seq, 1, Len(seq) - 1)), seq[Len(seq)])

\* The mutant of RecordEq: the paths alone are compared.
RecordPathEq(a, b) == PathEq(a.path, b.path)

\* 406: window[0] == window[1], on (PathBuf, String) tuples
RecordEq(a, b) == PathEq(a.path, b.path) /\ a.package = b.package

\* 405-406: file_map.windows(2).position(|window| window[0] == window[1]); 0: None
DuplicatePosition(fm) ==
    LET hits == { i \in 1..(Len(fm) - 1) : RecordEq(fm[i], fm[i + 1]) }
    IN  IF hits = {} THEN 0 ELSE CHOOSE i \in hits : \A j \in hits : i <= j

\* The mutant of FirstErr: the last Err of entries.
LastErr(es) ==
    LET bad == { i \in 1..Len(es) : es[i].state = "err" }
    IN  IF bad = {} THEN 0 ELSE CHOOSE i \in bad : \A j \in bad : i >= j

\* The first Err of entries, in the Vec's order (387: entry?); 0: none
FirstErr(es) ==
    LET bad == { i \in 1..Len(es) : es[i].state = "err" }
    IN  IF bad = {} THEN 0 ELSE CHOOSE i \in bad : \A j \in bad : i <= j

InitContents ==
    /\ pool \in SeqsUpTo(SampleArchives, MaxArchives)
    /\ entries = [i \in 1..Len(pool) |-> Pending]
    /\ pc = "introspect"
    /\ file_map = <<>>
    /\ err = NoError
    /\ compressing = FALSE
    /\ buffer = <<>>
    /\ data = <<>>
    /\ src = <<>>
    /\ out = <<>>
    /\ lastRead = [req |-> -1, got |-> 0]
    /\ pulls = <<>>
    /\ rstate = "open"
    /\ partial = FALSE
    /\ FileIdle
    /\ MoreIdle

\* 281-380: one task of into_par_iter().map(..) finishes; tasks finish in any
\* order, and collect() puts each result at its archive's place.
Introspect(i) ==
    /\ pc = "introspect"
    /\ entries[i].state = "pending"
    /\ entries' = [entries EXCEPT ![i] = IntrospectResult(pool[i])]
    /\ UNCHANGED <<pool, pc, file_map, err, compressing>>
    /\ UNCHANGED <<readerVars, fileVars, moreVars>>

\* 383-402, an Err among the entries: entry? returns it.
MuxFail ==
    /\ pc = "introspect"
    /\ \A i \in 1..Len(entries) : entries[i].state # "pending"
    /\ FirstErr(entries) # 0
    /\ err' = entries[FirstErr(entries)].error
    /\ pc' = "failed"
    /\ UNCHANGED <<pool, entries, file_map, compressing>>
    /\ UNCHANGED <<readerVars, fileVars, moreVars>>

\* 383-402: the entries are flattened and sorted by path.
Mux ==
    /\ pc = "introspect"
    /\ \A i \in 1..Len(entries) : entries[i].state # "pending"
    /\ FirstErr(entries) = 0
    /\ file_map' = SortByPath(Flatten(entries))
    /\ pc' = "check"
    /\ UNCHANGED <<pool, entries, err, compressing>>
    /\ UNCHANGED <<readerVars, fileVars, moreVars>>

\* 405-414, a position found: the error names both packages and the path.
DuplicateFound ==
    /\ pc = "check"
    /\ DuplicatePosition(file_map) # 0
    /\ LET pos == DuplicatePosition(file_map)
       IN  err' = [kind |-> "duplicate", a |-> file_map[pos].package,
                   b |-> file_map[pos + 1].package, path |-> file_map[pos].path]
    /\ pc' = "failed"
    /\ UNCHANGED <<pool, entries, file_map, compressing>>
    /\ UNCHANGED <<readerVars, fileVars, moreVars>>

\* The mutant of StartCompress: the reader is built without the duplicate scan.
StartCompressUnchecked ==
    /\ pc = "check"
    /\ buffer' = <<>>
    /\ data' = [i \in 1..Len(file_map) |-> ContentIteratorNext(file_map[i])]
    /\ src' = data'
    /\ compressing' = TRUE
    /\ pc' = "compress"
    /\ UNCHANGED <<pool, entries, file_map, err>>
    /\ UNCHANGED <<out, lastRead, pulls, rstate, partial>>
    /\ UNCHANGED <<fileVars, moreVars>>

\* 405-423, no position found: the reader is built over the records and
\* handed to compress().
StartCompress ==
    /\ pc = "check"
    /\ DuplicatePosition(file_map) = 0
    /\ buffer' = <<>>
    /\ data' = [i \in 1..Len(file_map) |-> ContentIteratorNext(file_map[i])]
    /\ src' = data'
    /\ compressing' = TRUE
    /\ pc' = "compress"
    /\ UNCHANGED <<pool, entries, file_map, err>>
    /\ UNCHANGED <<out, lastRead, pulls, rstate, partial>>
    /\ UNCHANGED <<fileVars, moreVars>>

\* compress() reads the reader until a read returns 0.
CompressRead ==
    /\ pc = "compress"
    /\ Read(ChunkSize)
    /\ pc' = IF rstate' = "eof" THEN "done"
             ELSE IF rstate' = "panic" THEN "panic"
             ELSE pc
    /\ UNCHANGED <<pool, entries, file_map, err, compressing>>
    /\ UNCHANGED <<fileVars, moreVars>>

Next ==
    \/ \E i \in 1..Len(pool) : Introspect(i)
    \/ MuxFail
    \/ Mux
    \/ DuplicateFound
    \/ StartCompress
    \/ CompressRead

Spec == InitContents /\ [][Next]_vars

---------------------------------------------------------------------------
(* request::file, request.rs 16-94 *)

ATTEMPTS == 3

\* File bodies, and the timestamps (seconds) a file or a target can carry.
Bodies == SeqsUpTo({0, 1}, MaxBody)
SampleTimes == {-1, 0, 1}

\* 24, 70: hasher::<Sha256, File>, scaled down to HashMod digests.
RECURSIVE HashFrom(_, _)
HashFrom(h, bytes) ==
    IF bytes = <<>> THEN h
    ELSE HashFrom((3 * h + Head(bytes) + 1) % HashMod, Tail(bytes))

hasher(content) == HashFrom(1, content)

\* The digests a caller can ask for: every digest, and HashMod, a string that
\* is the digest of no content.
Checksums == 0..HashMod

Word == 2 ^ WordBits

\* 88: mtime as u64; utime::get_file_times: metadata.atime() as u64
AsU64(x) == x % Word

\* utime::set_file_times: accessed as time_t, modified as time_t
AsTimeT(u) == IF u >= Word \div 2 THEN u - Word ELSE u

\* The mutant of RequiresDownload: an existing file is always fetched again.
RequiresDownloadAlways(cmp, f) == TRUE

\* The mutant of RequiresDownload: the modification time is not looked at.
RequiresDownloadNoMtime(cmp, f) ==
    IF cmp.kind = "Checksum"
    THEN IF cmp.checksum.some THEN hasher(f.content) # cmp.checksum.v ELSE TRUE
    ELSE Len(f.content) # cmp.length

\* 20-41: requires_download for an existing destination.
RequiresDownload(cmp, f) ==
    IF cmp.kind = "Checksum"
    THEN IF cmp.checksum.some
         THEN hasher(f.content) # cmp.checksum.v      \* 23-26
         ELSE TRUE                                    \* 40: _ => ()
    ELSE IF Len(f.content) = cmp.length               \* 30
         THEN IF cmp.mtime.some
              THEN ~(cmp.mtime.v = f.mtime)           \* 31-34
              ELSE FALSE                              \* 35-37
         ELSE TRUE

\* The mutant of SetFileTimes: the two times change places.
SetFileTimesSwapped(f, accessed, modified) ==
    [f EXCEPT !.atime = AsTimeT(modified), !.mtime = AsTimeT(accessed)]

\* 88: utime::set_file_times(path, accessed, modified), both u64
SetFileTimes(f, accessed, modified) ==
    [f EXCEPT !.atime = AsTimeT(accessed), !.mtime = AsTimeT(modified)]

\* Times are read by the SizeAndModification arm alone: a Checksum call is
\* explored with one clock value and one pair of file times.
InitFile ==
    /\ compare \in
         { [kind |-> "Checksum", checksum |-> c] :
             c \in {None} \cup { Some(d) : d \in Checksums } }
         \cup
         { [kind |-> "SizeAndModification", length |-> n, mtime |-> m] :
             n \in 0..MaxBody, m \in {None} \cup { Some(t) : t \in SampleTimes } }
    /\ now \in IF compare.kind = "Checksum" THEN {0} ELSE SampleTimes
    /\ file \in {NoFile} \cup
         { [exists |-> TRUE, content |-> b, mtime |-> m, atime |-> a] :
             b \in Bodies,
             m \in IF compare.kind = "Checksum" THEN {0} ELSE SampleTimes,
             a \in IF compare.kind = "Checksum" THEN {0} ELSE SampleTimes }
    /\ parent \in IF file.exists THEN {TRUE} ELSE BOOLEAN
    /\ tries = 0                      \* 17
    /\ fpc = "start"
    /\ result = NoResult
    /\ downloaded = 0
    /\ transfers = 0
    /\ removes = 0
    /\ total = 0
    /\ pre = file
    /\ copyAtime = 0
    /\ buffer = <<>>
    /\ data = <<>>
    /\ src = <<>>
    /\ out = <<>>
    /\ lastRead = [req |-> -1, got |-> 0]
    /\ pulls = <<>>
    /\ rstate = "open"
    /\ partial = FALSE
    /\ ContentsIdle
    /\ MoreIdle

\* 19-45: the destination exists and needs no download.
Skip ==
    /\ fpc = "start"
    /\ file.exists
    /\ ~RequiresDownload(compare, file)
    /\ result' = Ok(0)
    /\ fpc' = "done"
    /\ UNCHANGED <<compare, file, parent, now, tries, downloaded, transfers,
                   removes, total, pre, copyAtime>>
    /\ UNCHANGED <<readerVars, contentsVars, moreVars>>

\* 19-50: the destination exists and is opened with truncate(true).
OpenTruncate ==
    /\ fpc = "start"
    /\ file.exists
    /\ RequiresDownload(compare, file)
    /\ file' = [file EXCEPT !.content = <<>>, !.mtime = now]
    /\ fpc' = "opened"
    /\ UNCHANGED <<compare, parent, now, tries, result, downloaded, transfers,
                   removes, total, pre, copyAtime>>
    /\ UNCHANGED <<readerVars, contentsVars, moreVars>>

\* The mutant of Create: the parent directory is not created.
CreateFlat ==
    /\ fpc = "start"
    /\ ~file.exists
    /\ file' = [exists |-> TRUE, content |-> <<>>, mtime |-> now, atime |-> now]
    /\ fpc' = "opened"
    /\ UNCHANGED <<compare, parent, now, tries, result, downloaded, transfers,
                   removes, total, pre, copyAtime>>
    /\ UNCHANGED <<readerVars, contentsVars, moreVars>>

\* 51-58: no destination: its parent is created if missing, then the file.
Create ==
    /\ fpc = "start"
    /\ ~file.exists
    /\ parent' = TRUE
    /\ file' = [exists |-> TRUE, content |-> <<>>, mtime |-> now, atime |-> now]
    /\ fpc' = "opened"
    /\ UNCHANGED <<compare, now, tries, result, downloaded, transfers,
                   removes, total, pre, copyAtime>>
    /\ UNCHANGED <<readerVars, contentsVars, moreVars>>

\* The mutant of SendFail: a failed request starts the loop over.
SendFailRetry ==
    /\ fpc = "opened"
    /\ transfers' = transfers + 1
    /\ fpc' = "start"
    /\ UNCHANGED <<compare, file, parent, now, tries, result, downloaded, removes,
                   total, pre, copyAtime>>
    /\ UNCHANGED <<readerVars, contentsVars, moreVars>>

\* 61-64: the request fails; the error is returned.
SendFail ==
    /\ fpc = "opened"
    /\ transfers' = transfers + 1
    /\ result' = Err("reqwest get failed")
    /\ fpc' = "done"
    /\ UNCHANGED <<compare, file, parent, now, tries, downloaded, removes,
                   total, pre, copyAtime>>
    /\ UNCHANGED <<readerVars, contentsVars, moreVars>>

\* 65-66: the copy of the body fails part way; the error is returned.
CopyFail ==
    /\ fpc = "opened"
    /\ \E body \in Bodies : \E k \in 0..Len(body) :
          /\ k < Len(body) \/ body = <<>>
          /\ file' = [file EXCEPT !.content = SubSeq(body, 1, k), !.mtime = now]
    /\ transfers' = transfers + 1
    /\ result' = Err("reqwest copy failed")
    /\ fpc' = "done"
    /\ UNCHANGED <<compare, parent, now, tries, downloaded, removes, total,
                   pre, copyAtime>>
    /\ UNCHANGED <<readerVars, contentsVars, moreVars>>

\* 61-66: the server's body, whatever it is this time, is written to the file.
Copy ==
    /\ fpc = "opened"
    /\ \E body \in Bodies :
          /\ file' = [file EXCEPT !.content = body, !.mtime = now]
          /\ downloaded' = Len(body)
          /\ total' = total + Len(body)
    /\ transfers' = transfers + 1
    /\ copyAtime' = file.atime
    /\ fpc' = "written"
    /\ UNCHANGED <<compare, parent, now, tries, result, removes, pre>>
    /\ UNCHANGED <<readerVars, contentsVars, moreVars>>

\* The mutant of ChecksumOk: the bytes of every attempt are returned.
ChecksumOkSum ==
    /\ fpc = "written"
    /\ compare.kind = "Checksum" /\ compare.checksum.some
    /\ hasher(file.content) = compare.checksum.v
    /\ result' = Ok(total)
    /\ fpc' = "done"
    /\ UNCHANGED <<compare, file, parent, now, tries, downloaded, transfers,
                   removes, total, pre, copyAtime>>
    /\ UNCHANGED <<readerVars, contentsVars, moreVars>>

\* 69-72: the digest of what was written is the one asked for.
ChecksumOk ==
    /\ fpc = "written"
    /\ compare.kind = "Checksum" /\ compare.checksum.some
    /\ hasher(file.content) = compare.checksum.v
    /\ result' = Ok(downloaded)
    /\ fpc' = "done"
    /\ UNCHANGED <<compare, file, parent, now, tries, downloaded, transfers,
                   removes, total, pre, copyAtime>>
    /\ UNCHANGED <<readerVars, contentsVars, moreVars>>

\* 73-84, tries # ATTEMPTS: the file is removed and the loop starts over.
ChecksumRetry ==
    /\ fpc = "written"
    /\ compare.kind = "Checksum" /\ compare.checksum.some
    /\ hasher(file.content) # compare.checksum.v
    /\ file' = NoFile
    /\ removes' = removes + 1
    /\ tries # ATTEMPTS
    /\ tries' = tries + 1
    /\ fpc' = "start"
    /\ UNCHANGED <<compare, parent, now, result, downloaded, transfers, total,
                   pre, copyAtime>>
    /\ UNCHANGED <<readerVars, contentsVars, moreVars>>

\* The mutant of ChecksumGiveUp: the error is returned and the file stays.
ChecksumGiveUpKeep ==
    /\ fpc = "written"
    /\ compare.kind = "Checksum" /\ compare.checksum.some
    /\ hasher(file.content) # compare.checksum.v
    /\ tries = ATTEMPTS
    /\ result' = Err("checksum does not match")
    /\ fpc' = "done"
    /\ UNCHANGED <<compare, file, parent, now, tries, downloaded, transfers, removes,
                   total, pre, copyAtime>>
    /\ UNCHANGED <<readerVars, contentsVars, moreVars>>

\* 73-82, tries == ATTEMPTS: the file is removed and the error returned.
ChecksumGiveUp ==
    /\ fpc = "written"
    /\ compare.kind = "Checksum" /\ compare.checksum.some
    /\ hasher(file.content) # compare.checksum.v
    /\ file' = NoFile
    /\ removes' = removes + 1
    /\ tries = ATTEMPTS
    /\ result' = Err("checksum does not match")
    /\ fpc' = "done"
    /\ UNCHANGED <<compare, parent, now, tries, downloaded, transfers, total,
                   pre, copyAtime>>
    /\ UNCHANGED <<readerVars, contentsVars, moreVars>>

\* 86-89: the access time is read and written back with the target's mtime.
SetTimes ==
    /\ fpc = "written"
    /\ compare.kind = "SizeAndModification" /\ compare.mtime.some
    /\ file' = SetFileTimes(file, AsU64(file.atime), AsU64(compare.mtime.v))
    /\ result' = Ok(downloaded)
    /\ fpc' = "done"
    /\ UNCHANGED <<compare, parent, now, tries, downloaded, transfers, removes,
                   total, pre, copyAtime>>
    /\ UNCHANGED <<readerVars, contentsVars, moreVars>>

\* 90-92: nothing to verify.
Accept ==
    /\ fpc = "written"
    /\ \/ compare.kind = "Checksum" /\ ~compare.checksum.some
       \/ compare.kind = "SizeAndModification" /\ ~compare.mtime.some
    /\ result' = Ok(downloaded)
    /\ fpc' = "done"
    /\ UNCHANGED <<compare, file, parent, now, tries, downloaded, transfers,
                   removes, total, pre, copyAtime>>
    /\ UNCHANGED <<readerVars, contentsVars, moreVars>>

NextFile ==
    \/ Skip
    \/ OpenTruncate
    \/ Create
    \/ SendFail
    \/ CopyFail
    \/ Copy
    \/ ChecksumOk
    \/ ChecksumRetry
    \/ ChecksumGiveUp
    \/ SetTimes
    \/ Accept

SpecFile == InitFile /\ [][NextFile]_vars

\* 24, 28-29, 50: the existing destination does not open, or its metadata
\* does not read; the error is returned.
OpenFail ==
    /\ fpc = "start"
    /\ file.exists
    /\ result' = Err("os error")
    /\ fpc' = "done"
    /\ UNCHANGED <<compare, file, parent, now, tries, downloaded, transfers,
                   removes, total, pre, copyAtime>>
    /\ UNCHANGED <<readerVars, contentsVars, moreVars>>

\* 52-57: create_dir_all fails, or File::create after it; the error is returned.
CreateFail ==
    /\ fpc = "start"
    /\ ~file.exists
    /\ parent' \in {parent, TRUE}
    /\ result' = Err("os error")
    /\ fpc' = "done"
    /\ UNCHANGED <<compare, file, now, tries, downloaded, transfers, removes,
                   total, pre, copyAtime>>
    /\ UNCHANGED <<readerVars, contentsVars, moreVars>>

\* 70, 75, 87-88: the written file does not open for hashing, is not removed
\* after a mismatch, or its times are not read or set; the error is returned.
VerifyFail ==
    /\ fpc = "written"
    /\ \/ compare.kind = "Checksum" /\ compare.checksum.some
       \/ compare.kind = "SizeAndModification" /\ compare.mtime.some
    /\ result' = Err("os error")
    /\ fpc' = "done"
    /\ UNCHANGED <<compare, file, parent, now, tries, downloaded, transfers,
                   removes, total, pre, copyAtime>>
    /\ UNCHANGED <<readerVars, contentsVars, moreVars>>

\* request::file with the failures of the filesystem.
NextFileFaults ==
    \/ Skip
    \/ OpenTruncate
    \/ Create
    \/ SendFail
    \/ CopyFail
    \/ Copy
    \/ ChecksumOk
    \/ ChecksumRetry
    \/ ChecksumGiveUp
    \/ SetTimes
    \/ Accept
    \/ OpenFail
    \/ CreateFail
    \/ VerifyFail

SpecFileFaults == InitFile /\ [][NextFileFaults]_vars

---------------------------------------------------------------------------
(* request::file called a second time for the same target *)

\* 15-17: after the call returned Ok the caller calls again with the same
\* url, compare and path; nothing touched the destination in between.
CallAgain ==
    /\ calls = 1
    /\ fpc = "done"
    /\ result.kind = "ok"
    /\ calls' = 2
    /\ pre' = file
    /\ tries' = 0                    \* 17
    /\ fpc' = "start"
    /\ result' = NoResult
    /\ downloaded' = 0
    /\ transfers' = 0
    /\ removes' = 0
    /\ total' = 0
    /\ copyAtime' = 0
    /\ UNCHANGED <<compare, file, parent, now>>
    /\ UNCHANGED <<readerVars, contentsVars, introspectVars, configVars, suiteVars,
                   scopeVars>>

\* 61-66 in the first call: the server's body, whatever it is.
CopyFirst == calls = 1 /\ Copy

\* 61-66 in the repeated call: the server still holds the body that the first
\* call wrote.
CopySame == calls = 2 /\ Copy /\ file'.content = pre.content

NextFileTwice ==
    \/ Skip
    \/ OpenTruncate
    \/ Create
    \/ SendFail
    \/ CopyFail
    \/ CopyFirst
    \/ CopySame
    \/ ChecksumOk
    \/ ChecksumRetry
    \/ ChecksumGiveUp
    \/ SetTimes
    \/ Accept
    \/ CallAgain

SpecFileTwice == InitFile /\ [][NextFileTwice]_vars

---------------------------------------------------------------------------
(* SpecReader: a ContentReader over any iterator of lines *)

\* Lines of different lengths with pairwise different bytes, and the empty one.
SampleLines == { <<>>, <<1>>, <<2, 3>>, <<4, 5, 6>> }

InitReader ==
    /\ src \in SeqsUpTo(SampleLines, MaxLines)
    /\ data = src
    /\ buffer = <<>>      \* 417: Vec::with_capacity(64 * 1024), empty
    /\ out = <<>>
    /\ lastRead = [req |-> -1, got |-> 0]
    /\ pulls = <<>>
    /\ rstate = "open"
    /\ partial = FALSE
    /\ ContentsIdle
    /\ MoreIdle
    /\ FileIdle

ReaderRead == (\E n \in 0..MaxRead : Read(n)) /\ UNCHANGED <<contentsVars, fileVars, moreVars>>

NextReader == ReaderRead

SpecReader == InitReader /\ [][NextReader]_vars

\* The reader under a caller that reads into non-empty bufs until it is told
\* that nothing is left, as compress does with the reader of line 416: the
\* caller always issues its next read.
ReaderReadNonEmpty ==
    (\E n \in 1..MaxRead : Read(n)) /\ UNCHANGED <<contentsVars, fileVars, moreVars>>

NextReaderLive == ReaderReadNonEmpty

SpecReaderLive == InitReader /\ [][NextReaderLive]_vars /\ WF_vars(NextReaderLive)

---------------------------------------------------------------------------
(* The closure of one archive, generate.rs 282-380 *)

\* 294-303: the member a header's identifier names; None: the `_` arm
Identify(identifier) ==
    IF identifier = "data.tar.xz" THEN Some([what |-> "data", codec |-> "Xz"])
    ELSE IF identifier = "data.tar.gz" THEN Some([what |-> "data", codec |-> "Gz"])
    ELSE IF identifier = "control.tar.xz" THEN Some([what |-> "control", codec |-> "Xz"])
    ELSE IF identifier = "control.tar.gz" THEN Some([what |-> "control", codec |-> "Gz"])
    ELSE None

\* The mutant of ScanStep: an unrecognised member is not counted.
ScanStepUncounted(id, c, d, m) ==
    LET hit == IF m.ok THEN Identify(m.identifier) ELSE None
        d2 == IF hit.some /\ hit.v.what = "data"
              THEN Some([id |-> id, codec |-> hit.v.codec]) ELSE d
        c2 == IF hit.some /\ hit.v.what = "control"
              THEN Some([id |-> id, codec |-> hit.v.codec]) ELSE c
    IN  IF hit.some /\ d2.some /\ c2.some
        THEN [entry_id |-> id, control |-> c2, data |-> d2, break |-> TRUE]
        ELSE [entry_id |-> IF m.ok /\ ~hit.some THEN id ELSE id + 1,
              control |-> c2, data |-> d2, break |-> FALSE]

\* 292-309: one turn of the loop, over the member m next_entry() yielded.
ScanStep(id, c, d, m) ==
    LET hit == IF m.ok THEN Identify(m.identifier) ELSE None      \* 293-294
        d2 == IF hit.some /\ hit.v.what = "data"                   \* 295-296
              THEN Some([id |-> id, codec |-> hit.v.codec]) ELSE d
        c2 == IF hit.some /\ hit.v.what = "control"                \* 297-298
              THEN Some([id |-> id, codec |-> hit.v.codec]) ELSE c
    IN  IF hit.some /\ d2.some /\ c2.some                          \* 305
        THEN [entry_id |-> id, control |-> c2, data |-> d2, break |-> TRUE]
        ELSE [entry_id |-> id + 1, control |-> c2, data |-> d2,    \* 300, 308
              break |-> FALSE]

PackageKey == <<80, 97, 99, 107, 97, 103, 101, 58>>        \* "Package:"
SectionKey == <<83, 101, 99, 116, 105, 111, 110, 58>>      \* "Section:"
ControlFile == <<Dot, Slash, 99, 111, 110, 116, 114, 111, 108>>   \* "./control"

\* str::starts_with
StartsWith(line, key) == Len(line) >= Len(key) /\ SubSeq(line, 1, Len(key)) = key

\* char::is_whitespace, on the ASCII range
IsSpace(b) == b \in {9, 10, 11, 12, 13, Space}

\* str::trim
RECURSIVE Trim(_)
Trim(str) ==
    IF str = <<>> THEN <<>>
    ELSE IF IsSpace(Head(str)) THEN Trim(Tail(str))
    ELSE IF IsSpace(str[Len(str)]) THEN Trim(SubSeq(str, 1, Len(str) - 1))
    ELSE str

\* 331-340: the lines of one ./control entry, until both fields are set.
RECURSIVE ParseLines(_, _, _)
ParseLines(lines, pkg, sec) ==
    IF lines = <<>> THEN [package |-> pkg, section |-> sec]
    ELSE LET line == Head(lines)
             value == Some(Trim(SubSeq(line, 9, Len(line))))       \* line[8..].trim()
             p == IF StartsWith(line, PackageKey) THEN value ELSE pkg
             t == IF ~StartsWith(line, PackageKey) /\ StartsWith(line, SectionKey)
                  THEN value ELSE sec
         IN  IF p.some /\ t.some THEN [package |-> p, section |-> t]   \* 339
             ELSE ParseLines(Tail(lines), p, t)

\* 327-342: every entry of the control tar; the entries named ./control are read.
RECURSIVE ParseEntries(_, _, _)
ParseEntries(tar, pkg, sec) ==
    IF tar = <<>> THEN [package |-> pkg, section |-> sec]
    ELSE LET r == IF PathEq(Head(tar).path, ControlFile)               \* 330
                  THEN ParseLines(Head(tar).lines, pkg, sec)
                  ELSE [package |-> pkg, section |-> sec]
         IN  ParseEntries(Tail(tar), r.package, r.section)

\* 363-371: the paths of the data tar's entries that are no directories.
RECURSIVE DataFiles(_)
DataFiles(tar) ==
    IF tar = <<>> THEN <<>>
    ELSE (IF Head(tar).dir THEN <<>> ELSE <<Head(tar).path>>) \o DataFiles(Tail(tar))

\* 346, branch_name = "main": [section, "/", package].concat()
PackageName(pkg, sec) == sec \o <<Slash>> \o pkg

\* The members an ar container can hold: the four recognised names, one
\* other name, and a member whose header does not read (next_entry: Some(Err)).
SampleMembers ==
    { [ok |-> TRUE, identifier |-> n] :
        n \in {"debian-binary", "control.tar.xz", "control.tar.gz",
               "data.tar.xz", "data.tar.gz"} }
    \cup { [ok |-> FALSE, identifier |-> ""] }

SampleControlLines ==
    { PackageKey \o <<Space, 112>>,       \* "Package: p"
      PackageKey \o <<113, Space>>,       \* "Package:q "
      SectionKey \o <<Space, 115>>,       \* "Section: s"
      <<86, 58, Space, 49>> }             \* "V: 1"

\* Control tars: empty, one ./control entry, or the control file under the
\* name control, which is not the path ./control.
SampleControlTars ==
    { <<>> }
    \cup { <<[path |-> ControlFile, lines |-> ls]>> :
             ls \in SeqsUpTo(SampleControlLines, MaxControlLines) }
    \cup { <<[path |-> SubSeq(ControlFile, 3, Len(ControlFile)),
              lines |-> <<PackageKey \o <<Space, 112>>, SectionKey \o <<Space, 115>> >>]>> }

\* The data tar: a directory and two files.
SampleDataTar ==
    << [path |-> <<Dot, Slash>>, dir |-> TRUE],
       [path |-> <<Dot, Slash, 97>>, dir |-> FALSE],
       [path |-> <<97, Slash, 98>>, dir |-> FALSE] >>

SampleDebs ==
    { [members |-> ms, control |-> ct, data |-> SampleDataTar] :
        ms \in SeqsUpTo(SampleMembers, MaxMembers), ct \in SampleControlTars }

\* The errors of the closure that are no structural ones: what File::open,
\* jump_to_entry, the decoders and the tar reader return.
IoErrors ==
    { [kind |-> "NotFound", msg |-> "No such file or directory"],
      [kind |-> "Other", msg |-> "corrupt stream"] }

Structural(msg) == [kind |-> "Other", msg |-> msg]

InitIntrospect ==
    /\ deb \in SampleDebs
    /\ entry_id = 0                 \* 289
    /\ control_member = None        \* 287
    /\ data_member = None           \* 288
    /\ nread = 0
    /\ ipc = "scan"
    /\ package = None
    /\ section = None
    /\ files = <<>>                 \* 283
    /\ iresult = Pending
    /\ buffer = <<>>
    /\ data = <<>>
    /\ src = <<>>
    /\ out = <<>>
    /\ lastRead = [req |-> -1, got |-> 0]
    /\ pulls = <<>>
    /\ rstate = "open"
    /\ partial = FALSE
    /\ ContentsIdle
    /\ FileIdle
    /\ ConfigIdle
    /\ SuitesIdle
    /\ CallsIdle
    /\ ScopeIdle

\* 292-309: next_entry() yields a member.
ScanMember ==
    /\ ipc = "scan"
    /\ nread < Len(deb.members)
    /\ LET r == ScanStep(entry_id, control_member, data_member, deb.members[nread + 1])
       IN  /\ entry_id' = r.entry_id
           /\ control_member' = r.control
           /\ data_member' = r.data
           /\ ipc' = IF r.break THEN "scanned" ELSE "scan"
    /\ nread' = nread + 1
    /\ UNCHANGED <<deb, package, section, files, iresult>>
    /\ UNCHANGED <<readerVars, contentsVars, fileVars, configVars, suiteVars, callVars, scopeVars>>

\* 292: next_entry() yields None.
ScanEnd ==
    /\ ipc = "scan"
    /\ nread = Len(deb.members)
    /\ ipc' = "scanned"
    /\ UNCHANGED <<deb, entry_id, control_member, data_member, nread, package,
                   section, files, iresult>>
    /\ UNCHANGED <<readerVars, contentsVars, fileVars, configVars, suiteVars, callVars, scopeVars>>

\* 313, 372-377: the scan did not set both locals.
NoPair ==
    /\ ipc = "scanned"
    /\ ~(data_member.some /\ control_member.some)
    /\ iresult' = [state |-> "err", error |-> Structural(NoMembers)]
    /\ ipc' = "done"
    /\ UNCHANGED <<deb, entry_id, control_member, data_member, nread, package,
                   section, files>>
    /\ UNCHANGED <<readerVars, contentsVars, fileVars, configVars, suiteVars, callVars, scopeVars>>

\* 313-343: the member at the recorded index is decoded and its tar read.
ParseControl ==
    /\ ipc = "scanned"
    /\ data_member.some /\ control_member.some
    /\ LET m == deb.members[control_member.v.id + 1]         \* 319: jump_to_entry
       IN  /\ m.ok
           /\ Identify(m.identifier) =
                 Some([what |-> "control", codec |-> control_member.v.codec])
    /\ LET r == ParseEntries(deb.control, None, None)
       IN  /\ package' = r.package
           /\ section' = r.section
    /\ ipc' = "parsed"
    /\ UNCHANGED <<deb, entry_id, control_member, data_member, nread, files, iresult>>
    /\ UNCHANGED <<readerVars, contentsVars, fileVars, configVars, suiteVars, callVars, scopeVars>>

\* The mutant of NoPackageSection: a package without section is let through
\* under its bare name.
PackageWithoutSection ==
    /\ ipc = "parsed"
    /\ ~(package.some /\ section.some)
    /\ iresult' = IF package.some
                  THEN [state |-> "ok", package |-> package.v, files |-> DataFiles(deb.data)]
                  ELSE [state |-> "err", error |-> Structural(NoFields)]
    /\ ipc' = "done"
    /\ UNCHANGED <<deb, entry_id, control_member, data_member, nread, package,
                   section, files>>
    /\ UNCHANGED <<readerVars, contentsVars, fileVars, configVars, suiteVars, callVars, scopeVars>>

\* 345-354: a field is missing.
NoPackageSection ==
    /\ ipc = "parsed"
    /\ ~(package.some /\ section.some)
    /\ iresult' = [state |-> "err", error |-> Structural(NoFields)]
    /\ ipc' = "done"
    /\ UNCHANGED <<deb, entry_id, control_member, data_member, nread, package,
                   section, files>>
    /\ UNCHANGED <<readerVars, contentsVars, fileVars, configVars, suiteVars, callVars, scopeVars>>

\* 345-371, 379: the package name is built and the data tar listed.
ListData ==
    /\ ipc = "parsed"
    /\ package.some /\ section.some
    /\ LET m == deb.members[data_member.v.id + 1]            \* 357: jump_to_entry
       IN  /\ m.ok
           /\ Identify(m.identifier) =
                 Some([what |-> "data", codec |-> data_member.v.codec])
    /\ files' = DataFiles(deb.data)
    /\ iresult' = [state |-> "ok", package |-> PackageName(package.v, section.v),
                   files |-> files']
    /\ ipc' = "done"
    /\ UNCHANGED <<deb, entry_id, control_member, data_member, nread, package, section>>
    /\ UNCHANGED <<readerVars, contentsVars, fileVars, configVars, suiteVars, callVars, scopeVars>>

\* 285, 318-332, 356-369: one of the `?` returns an I/O error: the file does
\* not open, or the member at the recorded index does not decode as a tar.
IoFail ==
    /\ \/ ipc = "scan" /\ nread = 0
       \/ ipc = "scanned" /\ data_member.some /\ control_member.some
       \/ ipc = "parsed" /\ package.some /\ section.some
    /\ \E e \in IoErrors : iresult' = [state |-> "err", error |-> e]
    /\ ipc' = "done"
    /\ UNCHANGED <<deb, entry_id, control_member, data_member, nread, package,
                   section, files>>
    /\ UNCHANGED <<readerVars, contentsVars, fileVars, configVars, suiteVars, callVars, scopeVars>>

NextIntrospect ==
    \/ ScanMember
    \/ ScanEnd
    \/ NoPair
    \/ ParseControl
    \/ NoPackageSection
    \/ ListData
    \/ IoFail

SpecIntrospect == InitIntrospect /\ [][NextIntrospect]_vars

---------------------------------------------------------------------------
(* Config's ConfigFetch, config/mod.rs 71-158, and Direct's, 188-207 *)
(* Strings are sequences of characters.                                    *)

KeyArchive == <<"a", "r", "c", "h", "i", "v", "e">>
KeyVersion == <<"v", "e", "r", "s", "i", "o", "n">>
KeyOrigin == <<"o", "r", "i", "g", "i", "n">>
KeyLabel == <<"l", "a", "b", "e", "l">>
KeyEmail == <<"e", "m", "a", "i", "l">>
KeyDirect == <<"d", "i", "r", "e", "c", "t">>
KeyName == <<"n", "a", "m", "e">>
KeyUrls == <<"u", "r", "l", "s">>
DirectPrefix == <<"d", "i", "r", "e", "c", "t", ".">>
SourcePrefix == <<"s", "o", "u", "r", "c", "e", ".">>

\* format!("{:#?}", x): the fields of x between brackets
RECURSIVE Debug(_)
Debug(ds) ==
    IF ds = <<>> THEN <<"[", "]">>
    ELSE <<"[">> \o Head(ds).name \o <<",">> \o Head(ds).version \o <<"]">> \o Debug(Tail(ds))

\* key.find('.').unwrap_or_else(|| key.len()), as a count of characters
RECURSIVE FindDot(_)
FindDot(key) ==
    IF key = <<>> \/ Head(key) = "." THEN 0 ELSE 1 + FindDot(Tail(key))

\* 82-84, 125-127: &key[7..] split at its first '.'
SplitKey(key) ==
    LET rest == SubSeq(key, 8, Len(key))
        at == FindDot(rest)
    IN  [direct_key |-> SubSeq(rest, 1, at), direct_field |-> SubSeq(rest, at + 1, Len(rest))]

\* 86-89, 129-131: and_then(|direct| direct.iter().find(|d| d.name == direct_key)); 0: None
FindDirect(cfg, direct_key) ==
    IF ~cfg.direct.some THEN 0
    ELSE LET hits == { i \in 1..Len(cfg.direct.v) : cfg.direct.v[i].name = direct_key }
         IN  IF hits = {} THEN 0 ELSE CHOOSE i \in hits : \A j \in hits : i <= j

\* 189-196: Direct::fetch
direct_fetch(d, key) ==
    IF key = KeyName THEN Some(d.name)
    ELSE IF key = KeyVersion THEN Some(d.version)
    ELSE IF key = KeyUrls THEN Some(<<"[", "]">>)
    ELSE None

\* The mutant of direct_update: the version arm writes the name.
direct_update_name(d, key, value) ==
    IF key = KeyName \/ key = KeyVersion THEN [ok |-> TRUE, d |-> [d EXCEPT !.name = value]]
    ELSE [ok |-> FALSE, d |-> d]

\* 198-206: Direct::update
direct_update(d, key, value) ==
    IF key = KeyName THEN [ok |-> TRUE, d |-> [d EXCEPT !.name = value]]
    ELSE IF key = KeyVersion THEN [ok |-> TRUE, d |-> [d EXCEPT !.version = value]]
    ELSE [ok |-> FALSE, d |-> d]

\* 81-108: the arm of a key that starts with "direct." or "source."
FetchDotted(cfg, key) ==
    LET k == SplitKey(key)
        i == FindDirect(cfg, k.direct_key)
    IN  IF i = 0 THEN None                                                   \* 93
        ELSE IF Len(k.direct_field) > 1                                      \* 91
        THEN direct_fetch(cfg.direct.v[i], SubSeq(k.direct_field, 2, Len(k.direct_field)))
        ELSE Some(Debug(<<cfg.direct.v[i]>>))                                \* 92

\* The mutant of fetch: a key that starts with "source." is looked up in
\* the source collection.
FetchDottedSource(cfg, key) ==
    LET k == SplitKey(key)
        found == IF cfg.source.some
                 THEN { j \in 1..Len(cfg.source.v) : cfg.source.v[j].name = k.direct_key }
                 ELSE {}
    IN  IF found = {} THEN None
        ELSE LET i == CHOOSE j \in found : \A h \in found : j <= h
             IN  IF Len(k.direct_field) > 1
                 THEN direct_fetch(cfg.source.v[i], SubSeq(k.direct_field, 2, Len(k.direct_field)))
                 ELSE Some(Debug(<<cfg.source.v[i]>>))

fetch_by_collection(cfg, key) ==
    IF key = KeyArchive THEN Some(cfg.archive)
    ELSE IF key = KeyVersion THEN Some(cfg.version)
    ELSE IF key = KeyOrigin THEN Some(cfg.origin)
    ELSE IF key = KeyLabel THEN Some(cfg.label)
    ELSE IF key = KeyEmail THEN Some(cfg.email)
    ELSE IF key = KeyDirect
    THEN Some(IF cfg.direct.some THEN Debug(cfg.direct.v) ELSE <<"N", "o", "n", "e">>)
    ELSE IF StartsWith(key, DirectPrefix) THEN FetchDotted(cfg, key)
    ELSE IF StartsWith(key, SourcePrefix) THEN FetchDottedSource(cfg, key)
    ELSE None

\* 72-114: Config::fetch
fetch(cfg, key) ==
    IF key = KeyArchive THEN Some(cfg.archive)
    ELSE IF key = KeyVersion THEN Some(cfg.version)
    ELSE IF key = KeyOrigin THEN Some(cfg.origin)
    ELSE IF key = KeyLabel THEN Some(cfg.label)
    ELSE IF key = KeyEmail THEN Some(cfg.email)
    ELSE IF key = KeyDirect
    THEN Some(IF cfg.direct.some THEN Debug(cfg.direct.v) ELSE <<"N", "o", "n", "e">>)
    ELSE IF StartsWith(key, DirectPrefix) THEN FetchDotted(cfg, key)
    ELSE IF StartsWith(key, SourcePrefix) THEN FetchDotted(cfg, key)
    ELSE None

\* 124-149: the arm of a key that starts with "direct." or "source."
UpdateDotted(cfg, key, value) ==
    LET k == SplitKey(key)
        i == FindDirect(cfg, k.direct_key)
    IN  IF i # 0 /\ Len(k.direct_field) > 1                                  \* 132
        THEN LET r == direct_update(cfg.direct.v[i],
                                    SubSeq(k.direct_field, 2, Len(k.direct_field)), value)
             IN  [ok |-> r.ok, cfg |-> [cfg EXCEPT !.direct.v[i] = r.d]]
        ELSE [ok |-> FALSE, cfg |-> cfg]                                     \* 135

\* 116-157: Config::update
update(cfg, key, value) ==
    IF key = KeyArchive THEN [ok |-> TRUE, cfg |-> [cfg EXCEPT !.archive = value]]
    ELSE IF key = KeyVersion THEN [ok |-> TRUE, cfg |-> [cfg EXCEPT !.version = value]]
    ELSE IF key = KeyOrigin THEN [ok |-> TRUE, cfg |-> [cfg EXCEPT !.origin = value]]
    ELSE IF key = KeyLabel THEN [ok |-> TRUE, cfg |-> [cfg EXCEPT !.label = value]]
    ELSE IF key = KeyEmail THEN [ok |-> TRUE, cfg |-> [cfg EXCEPT !.email = value]]
    ELSE IF StartsWith(key, DirectPrefix) THEN UpdateDotted(cfg, key, value)
    ELSE IF StartsWith(key, SourcePrefix) THEN UpdateDotted(cfg, key, value)
    ELSE [ok |-> FALSE, cfg |-> cfg]                                         \* 152

\* The names of direct entries, and the values a caller writes.
SampleNames == { <<"a">>, <<"b">> }
SampleValues == { <<"a">>, <<"c">> }

SampleDirects == { [name |-> n, version |-> <<"x">>] : n \in SampleNames }

\* The entries of Config.source: projects built from source, each with a name
\* and a version of its own.
SampleSources == { [name |-> <<"a">>, version |-> <<"s">>] }

\* The keys a caller asks for: the top-level ones, the dotted ones of both
\* prefixes with and without a field, and a key of neither kind.
SampleKeys ==
    {KeyArchive, KeyVersion, KeyOrigin, KeyLabel, KeyEmail, KeyDirect, KeyUrls}
    \cup { DirectPrefix \o n : n \in SampleNames }
    \cup { DirectPrefix \o n \o <<".">> \o f :
             n \in SampleNames, f \in {<<>>, KeyName, KeyVersion, KeyUrls} }
    \cup { SourcePrefix \o <<"a", ".">> \o f : f \in {KeyName, KeyVersion} }

InitConfig ==
    /\ config \in
         { [archive |-> <<"x">>, version |-> <<"x">>, origin |-> <<"x">>,
            label |-> <<"x">>, email |-> <<"x">>, direct |-> d, source |-> so] :
             d \in {None} \cup { Some(ds) : ds \in SeqsUpTo(SampleDirects, MaxDirect) },
             so \in { Some(<<e>>) : e \in SampleSources } }
    /\ lastKey = <<>>
    /\ lastValue = <<>>
    /\ updated = "none"
    /\ fetched = [key |-> <<>>, value |-> None, after |-> 0]
    /\ nupdates = 0
    /\ buffer = <<>>
    /\ data = <<>>
    /\ src = <<>>
    /\ out = <<>>
    /\ lastRead = [req |-> -1, got |-> 0]
    /\ pulls = <<>>
    /\ rstate = "open"
    /\ partial = FALSE
    /\ ContentsIdle
    /\ FileIdle
    /\ IntrospectIdle
    /\ SuitesIdle
    /\ CallsIdle
    /\ ScopeIdle

\* A caller calls config.update(key, value).
Update(key, value) ==
    /\ nupdates < MaxUpdates
    /\ LET r == update(config, key, value)
       IN  /\ config' = r.cfg
           /\ updated' = IF r.ok THEN "ok" ELSE "err"
    /\ lastKey' = key
    /\ lastValue' = value
    /\ nupdates' = nupdates + 1
    /\ UNCHANGED fetched
    /\ UNCHANGED <<readerVars, contentsVars, fileVars, introspectVars, suiteVars, callVars, scopeVars>>

\* A caller calls config.fetch(key), once after an update.
Fetch(key) ==
    /\ fetched.after < nupdates
    /\ fetched' = [key |-> key, value |-> fetch(config, key), after |-> nupdates]
    /\ UNCHANGED <<config, lastKey, lastValue, updated, nupdates>>
    /\ UNCHANGED <<readerVars, contentsVars, fileVars, introspectVars, suiteVars, callVars, scopeVars>>

NextConfig ==
    \/ \E key \in SampleKeys : \E value \in SampleValues : Update(key, value)
    \/ \E key \in SampleKeys : Fetch(key)

SpecConfig == InitConfig /\ [][NextConfig]_vars

---------------------------------------------------------------------------
(* contents() over all of suites, generate.rs 271-424 *)
(* Directories are sequences of path components.                           *)

SampleSuites ==
    << [arch |-> "amd64", path |-> <<"pool", "amd64">>],
       [arch |-> "i386", path |-> <<"pool", "i386">>] >>

SampleDirs == { <<"pool", "amd64">>, <<"pool", "amd64", "main">>, <<"pool", "i386">> }

\* Two archives that introspect and one that does not.
SuiteArchives ==
    { [package |-> <<115, Slash, 112>>, files |-> << <<Dot, Slash, 97>> >>,
       broken |-> FALSE, cause |-> ""],
      [package |-> <<115, Slash, 113>>, files |-> << <<97, Slash, 98>> >>,
       broken |-> FALSE, cause |-> ""],
      [package |-> <<>>, files |-> <<>>, broken |-> TRUE, cause |-> NoMembers] }

\* dir is path or lies below it.
Under(dir, path) == Len(dir) >= Len(path) /\ SubSeq(dir, 1, Len(path)) = path

\* 277-280: the files misc::walk_debs(&path) yields, in walk order.
RECURSIVE WalkDebs(_, _)
WalkDebs(t, path) ==
    IF t = <<>> THEN <<>>
    ELSE (IF Under(Head(t).dir, path) THEN <<Head(t).archive>> ELSE <<>>)
         \o WalkDebs(Tail(t), path)

\* 277-423: the closure of one suite over the archives walk_debs yielded:
\* the error it returns, or the file_map and the bytes its reader yields.
BuildArch(order) ==
    LET es == [i \in 1..Len(order) |-> IntrospectResult(order[i])]
        fm == SortByPath(Flatten(es))
        pos == DuplicatePosition(fm)
    IN  IF FirstErr(es) # 0                                          \* 387
        THEN [state |-> "err", error |-> es[FirstErr(es)].error,
              file_map |-> <<>>, bytes |-> <<>>]
        ELSE IF pos # 0                                              \* 405-414
        THEN [state |-> "err",
              error |-> [kind |-> "duplicate", a |-> fm[pos].package,
                         b |-> fm[pos + 1].package, path |-> fm[pos].path],
              file_map |-> fm, bytes |-> <<>>]
        ELSE [state |-> "ok", error |-> NoError, file_map |-> fm,
              bytes |-> Flat([i \in 1..Len(fm) |-> ContentIteratorNext(fm[i])])]

InitSuites ==
    /\ suites = SampleSuites
    /\ tree \in SeqsUpTo({ [dir |-> d, archive |-> a] : d \in SampleDirs, a \in SuiteArchives },
                          MaxTree)
    /\ task = [i \in 1..Len(suites) |-> "waiting"]
    /\ merged = [i \in 1..Len(suites) |-> <<>>]
    /\ dist = [i \in 1..Len(suites) |-> None]
    /\ saved = None
    /\ cresult = "none"
    /\ buffer = <<>>
    /\ data = <<>>
    /\ src = <<>>
    /\ out = <<>>
    /\ lastRead = [req |-> -1, got |-> 0]
    /\ pulls = <<>>
    /\ rstate = "open"
    /\ partial = FALSE
    /\ ContentsIdle
    /\ FileIdle
    /\ IntrospectIdle
    /\ ConfigIdle
    /\ CallsIdle
    /\ ScopeIdle

\* 275: a worker takes suite i; collect() has stored no error so far.
StartArch(i) ==
    /\ task[i] = "waiting"
    /\ ~saved.some
    /\ task' = [task EXCEPT ![i] = "running"]
    /\ UNCHANGED <<suites, tree, merged, dist, saved, cresult>>
    /\ UNCHANGED <<readerVars, contentsVars, fileVars, introspectVars, configVars, callVars, scopeVars>>

\* 424: collect() into io::Result<()> has stored an error: the suites no
\* worker has taken yet are dropped.
SkipArch(i) ==
    /\ task[i] = "waiting"
    /\ saved.some
    /\ task' = [task EXCEPT ![i] = "skipped"]
    /\ UNCHANGED <<suites, tree, merged, dist, saved, cresult>>
    /\ UNCHANGED <<readerVars, contentsVars, fileVars, introspectVars, configVars, callVars, scopeVars>>

\* The mutant of ArchDone: the closure walks the whole tree.
ArchDoneShared(i) ==
    /\ task[i] = "running"
    /\ LET r == BuildArch(WalkDebs(tree, <<>>))
       IN  /\ r.state = "ok"
           /\ merged' = [merged EXCEPT ![i] = r.file_map]
           /\ dist' = [dist EXCEPT ![i] = Some(r.bytes)]
    /\ task' = [task EXCEPT ![i] = "ok"]
    /\ UNCHANGED <<suites, tree, saved, cresult>>
    /\ UNCHANGED <<readerVars, contentsVars, fileVars, introspectVars, configVars, callVars, scopeVars>>

\* 275-423: the closure of suite i runs to the end: its index is written.
ArchDone(i) ==
    /\ task[i] = "running"
    /\ LET r == BuildArch(WalkDebs(tree, suites[i].path))
       IN  /\ r.state = "ok"
           /\ merged' = [merged EXCEPT ![i] = r.file_map]
           /\ dist' = [dist EXCEPT ![i] = Some(r.bytes)]
    /\ task' = [task EXCEPT ![i] = "ok"]
    /\ UNCHANGED <<suites, tree, saved, cresult>>
    /\ UNCHANGED <<readerVars, contentsVars, fileVars, introspectVars, configVars, callVars, scopeVars>>

\* 275-414: the closure of suite i returns an error; collect() stores the
\* first error it is given.
ArchFail(i) ==
    /\ task[i] = "running"
    /\ LET r == BuildArch(WalkDebs(tree, suites[i].path))
       IN  /\ r.state = "err"
           /\ saved' = IF saved.some THEN saved ELSE Some(r.error)
    /\ task' = [task EXCEPT ![i] = "err"]
    /\ UNCHANGED <<suites, tree, merged, dist, cresult>>
    /\ UNCHANGED <<readerVars, contentsVars, fileVars, introspectVars, configVars, callVars, scopeVars>>

\* 424: every suite is settled and collect() returns.
Return ==
    /\ cresult = "none"
    /\ \A i \in 1..Len(suites) : task[i] \in {"ok", "err", "skipped"}
    /\ cresult' = IF saved.some THEN "err" ELSE "ok"
    /\ UNCHANGED <<suites, tree, task, merged, dist, saved>>
    /\ UNCHANGED <<readerVars, contentsVars, fileVars, introspectVars, configVars, callVars, scopeVars>>

NextSuites ==
    \/ \E i \in 1..Len(suites) : StartArch(i)
    \/ \E i \in 1..Len(suites) : SkipArch(i)
    \/ \E i \in 1..Len(suites) : ArchDone(i)
    \/ \E i \in 1..Len(suites) : ArchFail(i)
    \/ Return

SpecSuites == InitSuites /\ [][NextSuites]_vars

---------------------------------------------------------------------------
(* C1, C8, C10: the content index of one architecture *)

\* The closure has gone past the duplicate check (405-414).
PastCheck == pc \in {"failed", "compress", "done", "panic"}

AllIntrospected == \A i \in 1..Len(pool) : ~pool[i].broken

\* Archives i and j carry different package names and both list path f.
SharedPath(i, j, f) ==
    /\ pool[i].package # pool[j].package
    /\ \E k \in 1..Len(pool[i].files) : pool[i].files[k] = f
    /\ \E k \in 1..Len(pool[j].files) : pool[j].files[k] = f

\* C1: when two introspected archives with different package names list the
\* same path, the build fails with an error naming the packages of two
\* archives and a path both list, and compress() is never called; no two records that reach the
\* serializer share a path; archives with pairwise disjoint file sets raise
\* no such error.
OwnershipConflictRejected ==
    /\ (AllIntrospected /\ PastCheck) =>
         \A i, j \in 1..Len(pool) : \A f \in Range(pool[i].files) :
            SharedPath(i, j, f) =>
               /\ pc = "failed"
               /\ err.kind = "duplicate"
               /\ \E m, n \in 1..Len(pool) :
                    /\ m # n
                    /\ err.a = pool[m].package
                    /\ err.b = pool[n].package
                    /\ err.path \in Range(pool[m].files) \cap Range(pool[n].files)
               /\ ~compressing
    /\ compressing =>
         \A m, n \in 1..Len(file_map) : m # n => file_map[m].path # file_map[n].path
    /\ (\A i, j \in 1..Len(pool) :
           i # j => Range(pool[i].files) \cap Range(pool[j].files) = {})
         => err.kind # "duplicate"

\* The serialized index contents() would hand to compress() with the archives
\* enumerated in this order: [ok, bytes].
IndexOf(order) ==
    LET es == [i \in 1..Len(order) |-> IntrospectResult(order[i])]
        fm == SortByPath(Flatten(es))
    IN  IF FirstErr(es) # 0 \/ DuplicatePosition(fm) # 0
        THEN [ok |-> FALSE, bytes |-> <<>>]
        ELSE [ok |-> TRUE, bytes |-> Flat([i \in 1..Len(fm) |-> ContentIteratorNext(fm[i])])]

Orders(seq) ==
    { [i \in 1..Len(seq) |-> seq[q[i]]] :
        q \in { r \in [1..Len(seq) -> 1..Len(seq)] :
                  \A a, b \in 1..Len(seq) : a # b => r[a] # r[b] } }

\* C8: the serialized index is a function of the pool's contents: a build
\* over the same archives enumerated in any other order yields the same bytes.
IndexDeterministic ==
    pc = "done" => \A order \in Orders(pool) : IndexOf(order) = [ok |-> TRUE, bytes |-> out]

\* The line of the spec: the path without one leading "./", two spaces, the
\* package name, a newline.
LineOf(rec) ==
    (IF Len(rec.path) >= 2 /\ rec.path[1] = Dot /\ rec.path[2] = Slash
     THEN SubSeq(rec.path, 3, Len(rec.path))
     ELSE rec.path)
    \o <<Space, Space>> \o rec.package \o <<Newline>>

\* C10: every merged record with a non-empty path, of any length, yields
\* exactly its line, one line per record, in the records' order.
LineFormat ==
    compressing =>
        /\ Len(src) = Len(file_map)
        /\ \A i \in 1..Len(file_map) :
              file_map[i].path # <<>> => src[i] = LineOf(file_map[i])
        /\ pc # "panic"
        /\ pc = "done" => out = Flat([i \in 1..Len(file_map) |-> LineOf(file_map[i])])

---------------------------------------------------------------------------
(* C2-C7: the verified download *)

DigestTarget == compare.kind = "Checksum" /\ compare.checksum.some

IntegrityError == result = Err("checksum does not match")

\* C2: for a digest target whose content never matches, one call makes
\* exactly 3 transfers, removes the file after each mismatch and returns the
\* integrity error: never a 4th transfer.
DigestRetryBudget ==
    DigestTarget =>
        /\ transfers <= ATTEMPTS
        /\ IntegrityError => (transfers = ATTEMPTS /\ removes = ATTEMPTS /\ ~file.exists)

\* C3: for a target without digest whose destination exists, the call makes
\* no transfer, leaves the file as it is and returns 0.
PresenceSuffices ==
    (compare.kind = "Checksum" /\ ~compare.checksum.some /\ pre.exists) =>
        /\ transfers = 0
        /\ file = pre
        /\ fpc = "done" => result = Ok(0)

\* The destination, as the call finds it, satisfies the integrity spec.
Satisfied ==
    /\ pre.exists
    /\ \/ DigestTarget /\ hasher(pre.content) = compare.checksum.v
       \/ /\ compare.kind = "SizeAndModification"
          /\ Len(pre.content) = compare.length
          /\ compare.mtime.some => pre.mtime = compare.mtime.v

ChecksumAcceptsKth ==
    (DigestTarget /\ fpc = "done" /\ result.kind = "ok" /\ transfers >= 1) =>
        /\ result.n = Len(file.content)
        /\ result.n = downloaded
        /\ file.exists
        /\ hasher(file.content) = compare.checksum.v
        /\ removes = transfers - 1
        /\ ~ENABLED NextFile

\* The second transfer matched, after a first one of other bytes.
ChecksumAcceptsKthWitness ==
    /\ DigestTarget
    /\ fpc = "done"
    /\ result.kind = "ok"
    /\ transfers = 2
    /\ result.n > 0
    /\ total > result.n

\* C6: for a size-and-time target with a modification time, when the call
\* returns Ok after a transfer the file's modification time is that time and
\* its access time is the one it had right after the transfer.
TimestampPropagated ==
    (/\ compare.kind = "SizeAndModification"
     /\ compare.mtime.some
     /\ fpc = "done"
     /\ result.kind = "ok"
     /\ transfers >= 1) =>
        /\ file.mtime = compare.mtime.v
        /\ file.atime = copyAtime

\* A download stamped by the clock with another time than the target's, onto
\* a file whose access time is neither.
TimestampPropagatedWitness ==
    /\ compare.kind = "SizeAndModification"
    /\ compare.mtime.some
    /\ fpc = "done"
    /\ result.kind = "ok"
    /\ transfers = 1
    /\ now # compare.mtime.v
    /\ compare.mtime.v < 0
    /\ file.atime # file.mtime
    /\ file.atime # now

\* The call is fetching, or has fetched.
Fetching == fpc \in {"opened", "written"} \/ transfers >= 1

\* C7: for a size-and-time target with an existing destination, a transfer is
\* made unless the local length equals the expected one and the expected
\* mtime is absent or equals the local one.
SizeAndTimeExact ==
    (compare.kind = "SizeAndModification" /\ pre.exists /\ fpc # "start") =>
        /\ Fetching <=>
             ~(/\ Len(pre.content) = compare.length
               /\ (~compare.mtime.some \/ pre.mtime = compare.mtime.v))
        /\ ~Fetching => result = Ok(0)

\* Equal lengths and different modification times: the file was fetched.
SizeAndTimeExactWitness ==
    /\ compare.kind = "SizeAndModification"
    /\ pre.exists
    /\ fpc = "done"
    /\ Len(pre.content) = compare.length
    /\ compare.mtime.some
    /\ pre.mtime # compare.mtime.v
    /\ transfers = 1
    /\ result.kind = "ok"

---------------------------------------------------------------------------
(* C9: streaming correctness of ContentReader::read *)

\* C9: for every sequence of lines and every sequence of positive read sizes,
\* each read returns at most the requested size, the bytes handed out so far
\* followed by the buffered and the not yet pulled bytes are the concatenation
\* of all lines in order, and once a read returns 0 the bytes handed out are
\* that whole concatenation.
ReaderStreamCorrect ==
    /\ lastRead.req >= 0 => lastRead.got <= lastRead.req
    /\ out \o buffer \o Flat(data) = Flat(src)
    /\ rstate = "eof" => out = Flat(src)

\* A stream of several lines read to its end, one read having split a buffer.
ReaderStreamWitness ==
    /\ rstate = "eof"
    /\ Len(src) >= 2
    /\ Len(out) >= 4
    /\ out = Flat(src)
    /\ partial

---------------------------------------------------------------------------
(* C11: fail-fast on an introspection failure *)

\* The first archive of the pool, in walk_debs' order, that does not introspect.
FirstBroken == CHOOSE i \in 1..Len(pool) :
                  pool[i].broken /\ \A j \in 1..(i - 1) : ~pool[j].broken

\* C11: if the introspection of any archive of the pool fails, the build
\* returns that failure (the one of the first failing archive in the pool's
\* order), and nothing is merged, checked, serialized or compressed: no index
\* byte is emitted, however many other introspections succeeded.
FailFast ==
    ((\E i \in 1..Len(pool) : pool[i].broken) /\ pc # "introspect") =>
        /\ pc = "failed"
        /\ err = [kind |-> "introspect", cause |-> pool[FirstBroken].cause]
        /\ file_map = <<>>
        /\ ~compressing
        /\ src = <<>>
        /\ out = <<>>

\* Two archives fail for different reasons after one that introspects.
FailFastWitness ==
    /\ pc = "failed"
    /\ Len(pool) >= 2
    /\ ~pool[1].broken /\ pool[1].files # <<>>
    /\ pool[2].broken
    /\ err.kind = "introspect"
    /\ \A i \in 1..Len(entries) : entries[i].state # "pending"

---------------------------------------------------------------------------
(* C12, C17: the introspection of one archive *)

\* No readable member of the container carries a recognised name of this kind.
Lacks(what) ==
    \A i \in 1..Len(deb.members) :
        ~(/\ deb.members[i].ok
          /\ Identify(deb.members[i].identifier).some
          /\ Identify(deb.members[i].identifier).v.what = what)

\* The lines of the control tar's ./control entries.
ControlLines ==
    UNION { Range(deb.control[i].lines) :
              i \in { j \in 1..Len(deb.control) : deb.control[j].path = ControlFile } }

NoLine(key) == \A line \in ControlLines : ~StartsWith(line, key)

MemberScan ==
    /\ \A rec \in {[what |-> "control", m |-> control_member],
                    [what |-> "data", m |-> data_member]} :
          rec.m.some =>
             /\ rec.m.v.id + 1 \in 1..nread
             /\ deb.members[rec.m.v.id + 1].ok
             /\ Identify(deb.members[rec.m.v.id + 1].identifier) =
                   Some([what |-> rec.what, codec |-> rec.m.v.codec])
    /\ (control_member.some /\ data_member.some) =>
          /\ ipc # "scan"
          /\ nread = 1 + (IF control_member.v.id > data_member.v.id
                           THEN control_member.v.id ELSE data_member.v.id)
    /\ (ipc # "scan" /\ ~(control_member.some /\ data_member.some)) =>
          \/ nread = Len(deb.members)
          \/ nread = 0 /\ iresult.state = "err"

\* The data member came first, behind another member, and the control member
\* last: both indices were recorded and used.
MemberScanWitness ==
    /\ ipc = "done"
    /\ iresult.state = "ok"
    /\ Len(deb.members) = 3
    /\ ~Identify(deb.members[1].identifier).some
    /\ data_member = Some([id |-> 1, codec |-> "Gz"])
    /\ control_member = Some([id |-> 2, codec |-> "Xz"])

---------------------------------------------------------------------------
(* C13: the merged record sequence *)

\* The records have been merged and sorted (383-402 are done).
Merged ==
    \/ pc \in {"check", "compress", "done", "panic"}
    \/ pc = "failed" /\ err.kind = "duplicate"

Count(seq, x) == Cardinality({ i \in 1..Len(seq) : seq[i] = x })

\* Every (path, package) pair of every introspected archive, once per listing.
AllPairs ==
    Flatten([i \in 1..Len(pool) |-> [package |-> pool[i].package, files |-> pool[i].files]])

IsPermutation(a, b) ==
    /\ Len(a) = Len(b)
    /\ \A x \in Range(a) \cup Range(b) : Count(a, x) = Count(b, x)

\* C13 as amended: the merged sequence is a permutation of all (path,
\* package) pairs of all introspected archives and is non-decreasing under
\* the ordering of PathBuf, which compares paths component by component.
MergedSorted ==
    Merged =>
        /\ IsPermutation(file_map, AllPairs)
        /\ \A i, j \in 1..Len(file_map) :
              i < j => PathCmp(file_map[i].path, file_map[j].path) <= 0

\* C13 as stated: ... non-decreasing under the byte-wise lexicographic
\* ordering of the raw path bytes.
MergedSortedBytewise ==
    Merged =>
        /\ IsPermutation(file_map, AllPairs)
        /\ \A i, j \in 1..Len(file_map) :
              i < j => BytesCmp(file_map[i].path, file_map[j].path) <= 0

\* Two archives were merged into a sequence that is no concatenation of their
\* listings: a path of the second archive sorts before one of the first.
MergedSortedWitness ==
    /\ pc = "done"
    /\ Len(pool) = 2
    /\ Len(file_map) = 4
    /\ file_map # AllPairs
    /\ \E i \in 1..3 : BytesCmp(file_map[i].path, file_map[i + 1].path) > 0

---------------------------------------------------------------------------
(* C14: update then fetch *)

\* The last update call wrote the name field of a direct entry under another
\* name than the one its key carries.
Renamed ==
    /\ StartsWith(lastKey, DirectPrefix) \/ StartsWith(lastKey, SourcePrefix)
    /\ SplitKey(lastKey).direct_field = <<".">> \o KeyName
    /\ SplitKey(lastKey).direct_key # lastValue

---------------------------------------------------------------------------
(* C15, C16: transfers of the verified download *)

\* C15: a transfer after the first is made only after a digest mismatch that
\* consumed one retry; a failed request, a failed copy or a failed
\* filesystem operation ends the call with that error at once, and the retry
\* counter still counts exactly the mismatches seen.
RetryOnlyOnMismatch ==
    /\ transfers <= tries + 1
    /\ tries > 0 => DigestTarget
    /\ tries <= removes
    /\ result.kind = "err" =>
          /\ fpc = "done"
          /\ ~ENABLED NextFileFaults
          /\ ~IntegrityError =>
                /\ result.what \in {"reqwest get failed", "reqwest copy failed", "os error"}
                /\ tries = removes

\* The copy failed on the second attempt, after one mismatch.
RetryOnlyOnMismatchWitness ==
    /\ result = Err("reqwest copy failed")
    /\ fpc = "done"
    /\ tries = 1
    /\ transfers = 2
    /\ removes = 1

\* C16: when the call finds no destination it sends a request whatever the
\* integrity spec is, after the parent directory and the file were created;
\* whenever a body is about to be written, on a new or an existing
\* destination, the file is there and empty.
AbsentAlwaysFetches ==
    /\ (~pre.exists /\ fpc # "start") =>
          /\ parent
          /\ fpc = "opened" \/ transfers >= 1
    /\ (~pre.exists /\ fpc = "done") => transfers >= 1
    /\ fpc = "opened" =>
          /\ parent
          /\ file.exists
          /\ file.content = <<>>
    /\ (pre.exists /\ RequiresDownload(compare, pre) /\ fpc # "start") =>
          fpc = "opened" \/ transfers >= 1

\* No destination and no digest: the file was fetched.
AbsentAlwaysFetchesWitness ==
    /\ ~pre.exists
    /\ compare.kind = "Checksum"
    /\ ~compare.checksum.some
    /\ fpc = "done"
    /\ transfers = 1
    /\ result.kind = "ok"
    /\ result.n > 0
    /\ file.content # <<>>

---------------------------------------------------------------------------
(* C18: the stages of one architecture's build *)

\* C18: nothing is merged before every introspection task of the pool has
\* finished; the reader is handed to compress() only over a sequence that is
\* sorted and in which the duplicate scan found nothing; no byte is read
\* before that, and none after a found duplicate.
StagesSequential ==
    /\ pc # "introspect" => \A i \in 1..Len(entries) : entries[i].state # "pending"
    /\ pc = "introspect" => (file_map = <<>> /\ err = NoError /\ ~compressing)
    /\ compressing =>
          /\ pc \in {"compress", "done", "panic"}
          /\ file_map = SortByPath(Flatten(entries))
          /\ \A i \in 1..(Len(file_map) - 1) : ~RecordEq(file_map[i], file_map[i + 1])
    /\ ~compressing => (src = <<>> /\ out = <<>> /\ buffer = <<>> /\ lastRead.req = -1)
    /\ pc = "failed" => ~compressing

\* compress() is half way through the index of two archives.
StagesSequentialWitness ==
    /\ pc = "compress"
    /\ compressing
    /\ Len(pool) = 2
    /\ Len(file_map) = 3
    /\ out # <<>>
    /\ data # <<>>

---------------------------------------------------------------------------
(* C19: the architectures of one contents() call *)

\* What the closure of suite i yields when it runs over its own pool path.
OwnBuild(i) == BuildArch(WalkDebs(tree, suites[i].path))

\* Every merged record of suite i comes from an archive under its pool path.
OwnRecordsOnly(i) ==
    \A k \in 1..Len(merged[i]) :
        \E n \in 1..Len(tree) :
            /\ Under(tree[n].dir, suites[i].path)
            /\ ~tree[n].archive.broken
            /\ merged[i][k].package = tree[n].archive.package
            /\ merged[i][k].path \in Range(tree[n].archive.files)

\* C19 as amended: under any interleaving, the merged sequence of an
\* architecture holds only records of archives under its own pool path, and
\* an index that is produced is the one the architecture's build yields on
\* its own, whatever happened to the others; a failed build can prevent
\* another one: a build that was not started is dropped once one has failed.
ArchIsolation ==
    \A i \in 1..Len(suites) :
        /\ OwnRecordsOnly(i)
        /\ task[i] = "ok" =>
              /\ OwnBuild(i).state = "ok"
              /\ merged[i] = OwnBuild(i).file_map
              /\ dist[i] = Some(OwnBuild(i).bytes)
        /\ task[i] # "ok" => dist[i] = None
        /\ task[i] = "err" => OwnBuild(i).state = "err"
        /\ task[i] = "skipped" =>
              \E j \in 1..Len(suites) : j # i /\ task[j] = "err"

\* C19 as stated: ... and when contents() returns, every architecture whose
\* own build does not fail has its index, failures of others notwithstanding.
ArchIndependent ==
    \A i \in 1..Len(suites) :
        /\ OwnRecordsOnly(i)
        /\ (cresult # "none" /\ OwnBuild(i).state = "ok") =>
              /\ task[i] = "ok"
              /\ dist[i] = Some(OwnBuild(i).bytes)

\* The first architecture's build failed while the second was running: the
\* second wrote the index of its own two archives.
ArchIsolationWitness ==
    /\ cresult = "err"
    /\ task[1] = "err"
    /\ task[2] = "ok"
    /\ Len(merged[2]) = 2
    /\ Len(tree) = 3
    /\ dist[2].some /\ dist[2].v # <<>>

---------------------------------------------------------------------------
(* C20: the duplicate that is reported *)

\* The positions of file_map whose record and its successor carry equal paths.
EqualPathPositions ==
    { i \in 1..(Len(file_map) - 1) : PathEq(file_map[i].path, file_map[i + 1].path) }

FirstEqualPath == CHOOSE i \in EqualPathPositions : \A j \in EqualPathPositions : i <= j

\* C20: when the merged sequence holds adjacent records of equal paths, the
\* build fails with the error of the first such pair, naming both packages
\* and the path, and a build over the same archives enumerated in any other
\* order reports the same pair.
DuplicateReportDeterministic ==
    (Merged /\ PastCheck /\ EqualPathPositions # {}) =>
        /\ pc = "failed"
        /\ err = [kind |-> "duplicate",
                  a |-> file_map[FirstEqualPath].package,
                  b |-> file_map[FirstEqualPath + 1].package,
                  path |-> file_map[FirstEqualPath].path]
        /\ \A order \in Orders(pool) : BuildArch(order).error = err

---------------------------------------------------------------------------
(* metapackages::generate and directory_scope, metapackages.rs 8-62 *)
(* Directories are sequences of path components; the walk yields paths   *)
(* relative to the working directory generate was called in.             *)

\* The directories the program is started in.
SampleRoots == { <<"repo">>, <<"srv", "repo">>, <<"home", "user", "repo">> }

\* 35: path.parent() of the cfg files at depth 2 under metapackages/.
SampleParents == { <<"metapackages", "m1">>, <<"metapackages", "m2">> }

InitScope ==
    /\ cwd \in SampleRoots
    /\ before = cwd
    /\ previous = None
    /\ walk \in SeqsUpTo(SampleParents, MaxEntries)      \* 10-14
    /\ dpc = "walk"
    /\ scoped = "none"
    /\ dresult = NoResult
    /\ buffer = <<>>
    /\ data = <<>>
    /\ src = <<>>
    /\ out = <<>>
    /\ lastRead = [req |-> -1, got |-> 0]
    /\ pulls = <<>>
    /\ rstate = "open"
    /\ partial = FALSE
    /\ ContentsIdle
    /\ FileIdle
    /\ IntrospectIdle
    /\ ConfigIdle
    /\ SuitesIdle
    /\ CallsIdle

\* 40, 57-58: directory_scope(parent, ..) saves the working directory and
\* changes into parent, a path relative to the working directory.
Enter ==
    /\ dpc = "walk"
    /\ walk # <<>>
    /\ before' = cwd
    /\ previous' = Some(cwd)                              \* 57
    /\ cwd' = cwd \o Head(walk)                           \* 58
    /\ scoped' = "none"
    /\ dpc' = "scope"
    /\ UNCHANGED <<walk, dresult>>
    /\ UNCHANGED <<readerVars, contentsVars, fileVars, introspectVars, configVars,
                   suiteVars, callVars>>

\* 57-58: current_dir() or set_current_dir(path) fails and ? returns the
\* error, which collect() at 21 hands to the ? of generate.
EnterFail ==
    /\ dpc = "walk"
    /\ walk # <<>>
    /\ before' = cwd
    /\ previous' \in {None, Some(cwd)}
    /\ scoped' = "err"
    /\ dresult' = Err("os error")
    /\ dpc' = "done"
    /\ UNCHANGED <<cwd, walk>>
    /\ UNCHANGED <<readerVars, contentsVars, fileVars, introspectVars, configVars,
                   suiteVars, callVars>>

\* 59, 41-46: equivs-build ran and exited with success.
ScopeOk ==
    /\ dpc = "scope"
    /\ dpc' = "restore"
    /\ UNCHANGED <<cwd, before, previous, walk, scoped, dresult>>
    /\ UNCHANGED <<readerVars, contentsVars, fileVars, introspectVars, configVars,
                   suiteVars, callVars>>

\* 59: scope()? returns the error of the closure
\* (41-51: equivs-build did not start, or exited with failure) at once.
ScopeErr ==
    /\ dpc = "scope"
    /\ scoped' = "err"
    /\ dresult' = Err("equivs-build")
    /\ dpc' = "done"
    /\ UNCHANGED <<cwd, before, previous, walk>>
    /\ UNCHANGED <<readerVars, contentsVars, fileVars, introspectVars, configVars,
                   suiteVars, callVars>>

\* 60-61: the saved directory is set again and the result returned; the
\* walk goes on to the next entry.
Restore ==
    /\ dpc = "restore"
    /\ cwd' = previous.v
    /\ scoped' = "ok"
    /\ walk' = Tail(walk)
    /\ dpc' = "walk"
    /\ UNCHANGED <<before, previous, dresult>>
    /\ UNCHANGED <<readerVars, contentsVars, fileVars, introspectVars, configVars,
                   suiteVars, callVars>>

\* 60: set_current_dir(previous) fails and ? returns the error.
RestoreFail ==
    /\ dpc = "restore"
    /\ scoped' = "err"
    /\ dresult' = Err("os error")
    /\ dpc' = "done"
    /\ UNCHANGED <<cwd, before, previous, walk>>
    /\ UNCHANGED <<readerVars, contentsVars, fileVars, introspectVars, configVars,
                   suiteVars, callVars>>

\* 21-23: the walk is over without an error, and generate returns what
\* mv_to_pool returns.
MvToPool ==
    /\ dpc = "walk"
    /\ walk = <<>>
    /\ dresult' \in {Ok(0), Err("os error")}
    /\ dpc' = "done"
    /\ UNCHANGED <<cwd, before, previous, walk, scoped>>
    /\ UNCHANGED <<readerVars, contentsVars, fileVars, introspectVars, configVars,
                   suiteVars, callVars>>

NextScope ==
    \/ Enter
    \/ EnterFail
    \/ ScopeOk
    \/ ScopeErr
    \/ Restore
    \/ RestoreFail
    \/ MvToPool

SpecScope == InitScope /\ [][NextScope]_vars

---------------------------------------------------------------------------
(* C21: the buffer of ContentReader *)

\* The length of the longest line the iterator held.
Longest ==
    IF src = <<>> THEN 0
    ELSE CHOOSE m \in { Len(src[i]) : i \in 1..Len(src) } :
            \A i \in 1..Len(src) : Len(src[i]) <= m

\* The most bytes the buffer held during the last read call: what it holds
\* now and what the call handed out.
Peak == Len(buffer) + lastRead.got

---------------------------------------------------------------------------
(* C22: the reader is finite, single-pass and not restartable *)

\* C22: under reads into non-empty bufs, a read that returns 0 leaves the
\* iterator exhausted and the buffer empty, and a read that starts with the
\* iterator exhausted and the buffer empty returns 0; after a read returned 0
\* every later read returns 0 and hands out nothing; and the reader reaches
\* that state and stays in it.
ReaderExhausts ==
    /\ [][/\ lastRead'.got = 0 => data' = <<>> /\ buffer' = <<>>
          /\ data = <<>> /\ buffer = <<>> => lastRead'.got = 0
          /\ rstate = "eof" =>
                lastRead'.got = 0 /\ out' = out /\ data' = <<>> /\ rstate' = "eof"]_vars
    /\ <>[](rstate = "eof" /\ lastRead.got = 0 /\ out = Flat(src))

\* The reader handed out three lines, some of them in parts, and then
\* returned 0.
ReaderExhaustsWitness ==
    /\ rstate = "eof"
    /\ lastRead.req >= 1
    /\ lastRead.got = 0
    /\ Len(src) = 3
    /\ out = Flat(src)
    /\ out # <<>>
    /\ partial

---------------------------------------------------------------------------
(* C23: the keys that start with "source." *)

IsSourceKey(key) == StartsWith(key, SourcePrefix)

\* The key with "direct." in the place of "source.".
DirectTwin(key) == DirectPrefix \o SubSeq(key, 8, Len(key))

\* The configuration with another source collection.
WithSource(cfg, so) == [cfg EXCEPT !.source = so]

\* C23: fetch of a key "source.<name>.<field>" answers what fetch of
\* "direct.<name>.<field>" answers, whatever Config.source holds; update of
\* such a key does to the configuration what update of the direct key does;
\* and no call changes Config.source.
SourceKeysUseDirect ==
    /\ [](\A key \in SampleKeys : IsSourceKey(key) =>
            /\ fetch(config, key) = fetch(config, DirectTwin(key))
            /\ \A so \in {None} \cup { Some(<<e>>) : e \in SampleSources } :
                  fetch(WithSource(config, so), key) = fetch(config, key))
    /\ [](IsSourceKey(fetched.key) /\ fetched.after = nupdates =>
            fetched.value = fetch(config, DirectTwin(fetched.key)))
    /\ [][config'.source = config.source]_vars
    /\ [][nupdates' # nupdates /\ IsSourceKey(lastKey') =>
            LET r == update(config, DirectTwin(lastKey'), lastValue')
            IN  /\ config' = r.cfg
                /\ (updated' = "ok") = r.ok]_vars

\* update("source.a.version", "c") wrote the direct entry a, fetch of the same
\* key read it back, and the source entry a kept its version.
SourceKeysWitness ==
    /\ updated = "ok"
    /\ lastKey = SourcePrefix \o <<"a", ".">> \o KeyVersion
    /\ lastValue = <<"c">>
    /\ fetched.after = nupdates
    /\ fetched.key = lastKey
    /\ fetched.value = Some(<<"c">>)
    /\ config.direct.some
    /\ config.direct.v[Len(config.direct.v)] = [name |-> <<"a">>, version |-> <<"c">>]
    /\ config.source = Some(<<[name |-> <<"a">>, version |-> <<"s">>]>>)

---------------------------------------------------------------------------
(* C24: what a digest target leaves on disk *)

\* C24: when the call returns Ok for a target with a digest, with 0 or with
\* a byte count, also where the filesystem fails, the destination exists and
\* its content hashes to the digest; when it returns the integrity error the
\* destination does not exist.
DigestPostcondition ==
    (fpc = "done" /\ DigestTarget) =>
        /\ result.kind = "ok" =>
              /\ file.exists
              /\ hasher(file.content) = compare.checksum.v
        /\ IntegrityError => ~file.exists

\* A destination that existed with other content is gone after the call gave
\* up with the integrity error.
DigestPostconditionWitness ==
    /\ fpc = "done"
    /\ DigestTarget
    /\ IntegrityError
    /\ pre.exists
    /\ ~file.exists
    /\ transfers > 1

---------------------------------------------------------------------------
(* C25: the repeated call *)

\* C25: a call repeated right after the call returned Ok, with the same
\* target, the same remote body and the destination as the first call left
\* it, makes no transfer, leaves the file as it is and returns Ok(0), for
\* every kind of target.
RepeatedCallIdle ==
    calls = 2 =>
        /\ transfers = 0
        /\ file = pre
        /\ fpc = "done" => result = Ok(0)

\* The same for the targets with a digest only.
RepeatedCallIdleDigest ==
    (calls = 2 /\ DigestTarget) =>
        /\ transfers = 0
        /\ file = pre
        /\ fpc = "done" => result = Ok(0)

\* The same for the targets with a size whose destination has that size.
RepeatedCallIdleSize ==
    (calls = 2 /\ compare.kind = "SizeAndModification"
               /\ Len(pre.content) = compare.length) =>
        /\ transfers = 0
        /\ file = pre
        /\ fpc = "done" => result = Ok(0)

---------------------------------------------------------------------------
(* C26: the working directory after directory_scope *)

\* C26: whenever directory_scope has returned, with Ok or with an error, the
\* working directory is the one in effect before the call.
ScopeRestoresCwd ==
    scoped # "none" => cwd = before

\* The same for the returns with Ok only.
ScopeRestoresCwdOnOk ==
    scoped = "ok" => cwd = before

===========================================================================
